---------------------------- MODULE Spec2Model ----------------------------
(***************************************************************************)
(* Model of judge_agent's agent execution core: AuditAgent.execute         *)
(* (src/agent/core.py), its memory (MongoAgentMemory) and the events it    *)
(* yields through SSEUtils (src/utils/sse_utils.py).                       *)
(*                                                                         *)
(* Strings of the source that carry emoji or Chinese text are written as   *)
(* ASCII tags; every message content and every event content is a         *)
(* sequence of strings (a text is the sequence of its characters, a        *)
(* formatted line is a one-element sequence).                              *)
(***************************************************************************)
EXTENDS Integers, Sequences, FiniteSets, TLC

VARIABLES
    pc,             \* position of execute()
    step_count,     \* core.py:331
    finished,       \* memory._finished
    final_content,  \* memory._final_content
    messages,       \* memory._messages
    events,         \* the events yielded to the client so far
    tool_calls,     \* ai_message.tool_calls of the current step
    idx,            \* position of the for loops over tool_calls / tool_call_meta
    tasks,          \* core.py:364
    tool_call_meta, \* core.py:365
    results,        \* the slots asyncio.gather fills, one per valid coroutine
    completed,      \* the coroutine slots in the order the invocations completed
    result_iter,    \* number of results already taken by next(result_iter)
    modelCalls,     \* number of chat.completions.create calls made
    invoked,        \* ids of the calls whose tool.run has been started
    variedLeft,     \* turns left in which the environment may leave the default
    varied,         \* whether the current turn is such a turn
    memFault,       \* the memory operation of execute() whose durable write raised
    current_messages, \* the list memory.get_messages() gave for the model call of the step
    \* --- one memory object driven through its interface ---
    mem_class,      \* which of the three memory classes the object is
    mem_s3_url,     \* constructor argument s3_url
    mem_messages,   \* self.messages / self._messages
    mem_finished,   \* self._finished / self.state.finished
    mem_final_content, \* self._final_content / self.state.final_conclusion
    mem_memory_id,  \* self._memory_id, 0 for None
    db,             \* collection agent_memories: the documents, _id = position
    mem_call,       \* the call suspended at an await of the store
    mem_appended,   \* the arguments of the add_message calls that stored a message
    mem_marked,     \* whether a mark_finished call returned, and the last argument
    mem_last,       \* the call that ended last, and how
    resumed,        \* a second MongoAgentMemory after load_from_mongo
    \* --- one event stream and its mirror ---
    host,           \* the generator that yields the events
    enable_cache,   \* whether sse is a CacheSSEUtils
    s_pc,           \* "running" or "ended"
    requested,      \* the events the generator formatted and yielded, in order
    stream,         \* the strings the client received
    mtasks,         \* the tasks created by _cache_async, in creation order
    sse_memory_id,  \* memory._memory_id of the mirror, 0 for None
    sse_docs,       \* the documents the mirror writes to, _id = position
    \* --- the frame cache of langchain_tools.py, for one file_path ---
    fc_cache,       \* _FRAME_CACHE[file_path]: a frame list, NoList for none
    fc_lock,        \* _FRAME_LOCKS[file_path]: its holder and its waiters
    fc_pc,          \* where each _get_or_prepare_frames call is
    fc_ret,         \* the frame list each call holds and returns
    fc_how,         \* the branch each call took
    fc_extractions, \* number of ImageUtils.extract_frames executions
    fc_frames,      \* upload state of the frames of each extracted list
    fc_uploads,     \* the uploads in flight, as <<caller, frame list, frame>>
    \* --- two MongoAgentMemory objects bound to one document ---
    w_doc,          \* the messages list of the document
    w_cache,        \* _messages of each object
    w_call,         \* the add_message call of each object at its await, or none
    w_sent,         \* the messages whose add_message returned, per object
    w_snap          \* what get_messages last returned to each object's caller

\* the state of one run of AuditAgent.execute
coreVars == << pc, step_count, finished, final_content, messages, events,
               tool_calls, idx, tasks, tool_call_meta, results, completed,
               result_iter, modelCalls, invoked, variedLeft, varied >>

\* the state outside AuditAgent.execute's own variables
memVars == << mem_class, mem_s3_url, mem_messages, mem_finished,
             mem_final_content, mem_memory_id, db, mem_call, mem_appended,
             mem_marked, mem_last, resumed >>

mirVars == << host, enable_cache, s_pc, requested, stream, mtasks,
             sse_memory_id, sse_docs >>

fcVars == << fc_cache, fc_lock, fc_pc, fc_ret, fc_how, fc_extractions,
            fc_frames, fc_uploads >>

\* the components around execute(), each driven by a specification of its own
wrVars == << w_doc, w_cache, w_call, w_sent, w_snap >>

compVars == << memVars, mirVars, fcVars, wrVars >>

extVars == << memFault, current_messages, compVars >>

vars == << coreVars, extVars >>

---------------------------------------------------------------------------
(* Bounds of the model and constants of the program *)

\* core.py:330
max_steps == 10

\* most tool calls the modelled LLM requests in one turn
MaxCalls == 2

\* turns of a session in which the LLM's reply and the tools' outcomes are
\* arbitrary; in the other turns the LLM asks for one valid tool that succeeds
MaxVariedTurns == 1

---------------------------------------------------------------------------
(* Values *)

None == "None"

\* AuditAgent.tools_map: the registered tool names
tools_map == {"visual_face_check", "web_search"}

\* tool names the LLM may ask for ("foo" is registered nowhere)
ToolNames == tools_map \cup {"foo"}

\* argument blobs the LLM may send: a JSON object, JSON that is no object,
\* and text that neither json.loads nor ast.literal_eval accepts
ArgBlobs == {"{\"query\": \"q\"}", "[1]", "{bad"}

\* json.loads / ast.literal_eval of a blob: "mapping", "other" or "fail"
ParseArgs(blob) ==
    IF blob = "{\"query\": \"q\"}" THEN "mapping"
    ELSE IF blob = "[1]" THEN "other"
    ELSE "fail"

\* texts the LLM may put in ai_message.content (None counts as empty)
Contents == { <<>>, <<"o", "k">> }

\* result envelopes a tool may return: the keys present and their values.
\* preview_images: the key is present; corrected_text: <<>> without the key,
\* else the text as its characters; violation_check: <<>> without the key,
\* else the object it holds
\* audio_tools.py:93-147: the violation_check object; each key is <<>> when
\* the object lacks it, else its value in a one-element sequence
ViolationCheck(flag, segs) == << [is_violation |-> flag, segments |-> segs] >>

PlainEnvelope ==
    [status |-> "ok", preview_images |-> FALSE, corrected_text |-> <<>>,
     violation_check |-> <<>>]
ImageEnvelope == [PlainEnvelope EXCEPT !.preview_images = TRUE]
AudioEnvelope == [PlainEnvelope EXCEPT !.corrected_text = << <<"h", "i">> >>]
\* audio_tools.py:147: a violation with one time anchor
ViolationEnvelope ==
    [PlainEnvelope EXCEPT !.violation_check = ViolationCheck(<<TRUE>>, << <<"0-5">> >>)]
Envelopes == {PlainEnvelope, ImageEnvelope, AudioEnvelope, ViolationEnvelope}

\* outcome of one tool.run: a returned envelope or a raised Exception
Returned(env) == [kind |-> "ok", env |-> env, msg |-> ""]
Raised(msg) == [kind |-> "raise", env |-> PlainEnvelope, msg |-> msg]
Pending == [kind |-> "pending", env |-> PlainEnvelope, msg |-> ""]
Outcomes == {Returned(e) : e \in Envelopes} \cup {Raised("boom")}

\* the id the LLM gives the p-th call of step s
CallId(s, p) == "call_" \o ToString(s) \o "_" \o ToString(p)

ToolCall(s, p, name, blob) ==
    [id |-> CallId(s, p), name |-> name, arguments |-> blob]

\* tool_calls lists of n calls for step s
CallLists(s, n) ==
    { [p \in 1..n |-> ToolCall(s, p, f[p][1], f[p][2])] :
        f \in [1..n -> ToolNames \X ArgBlobs] }

DefaultCalls(s) ==
    << ToolCall(s, 1, "visual_face_check", "{\"query\": \"q\"}") >>

Ev(type, content) == [type |-> type, content |-> content]

Msg(role, content, tcs, tcid) ==
    [role |-> role, content |-> content, tool_calls |-> tcs, tool_call_id |-> tcid]

\* json.dumps({"error": msg})
JsonError(msg) == "{\"error\": \"" \o msg \o "\"}"

\* a text from its characters
RECURSIVE JoinChars(_)
JoinChars(chars) ==
    IF chars = <<>> THEN "" ELSE chars[1] \o JoinChars(Tail(chars))

\* json.dumps of a violation_check object: the keys it holds
json_violation_check(v) ==
    "{"
    \o (IF v.is_violation = <<>> THEN ""
        ELSE "\"is_violation\": " \o (IF v.is_violation[1] THEN "true" ELSE "false"))
    \o (IF v.is_violation # <<>> /\ v.segments # <<>> THEN ", " ELSE "")
    \o (IF v.segments = <<>> THEN ""
        ELSE "\"segments\": [" \o JoinChars(v.segments[1]) \o "]")
    \o "}"

\* core.py:470, json.dumps of a result dict: every key it holds, in the
\* order the tool wrote them
json_dumps(env) ==
    "{\"status\": \"" \o env.status \o "\""
    \o (IF env.preview_images THEN ", \"preview_images\": [\"preview\"]" ELSE "")
    \o (IF env.corrected_text # <<>>
        THEN ", \"corrected_text\": \"" \o JoinChars(env.corrected_text[1]) \o "\""
        ELSE "")
    \o (IF env.violation_check # <<>>
        THEN ", \"violation_check\": " \o json_violation_check(env.violation_check[1])
        ELSE "")
    \o "}"

\* core.py:446-448: del result_dict["preview_images"], the one key the
\* frontend layer removes
del_preview_images(env) == [env EXCEPT !.preview_images = FALSE]

\* core.py:446-470: the tool message content, json.dumps(result_dict) after
\* the frontend layer
JsonEnvelope(env) == json_dumps(del_preview_images(env))

---------------------------------------------------------------------------
(* The memory classes: values *)

\* an optional argument or dict key: <<>> for None / no key, <<v>> for v
Absent == <<>>
Some(v) == << v >>

\* core.py:20, memory.py:6, core.py:59
MemoryClasses == {"AgentMemory", "memory.AgentMemory", "MongoAgentMemory"}

FilePath == "/tmp/a.mp4"
FileType == "video"
S3Urls == {"", "http://minio/bucket/abc.mp4"}

\* a tool call as the OpenAI client returns it (an object with model_dump)
\* and as a plain dict
ToolCallObject == [id |-> "call_1", name |-> "web_search",
                   arguments |-> "{\"query\": \"q\"}", form |-> "object"]

\* the arguments add_message is called with
RoleArgs == {"assistant", "tool"}
ContentArgs == {Absent, Some(""), Some("x")}
ToolCallsArgs == {Absent, Some(<<>>), Some(<<ToolCallObject>>)}
ToolCallIdArgs == {Absent, Some(""), Some("call_1")}
MessageArgs == [role : RoleArgs, content : ContentArgs,
                tool_calls : ToolCallsArgs, tool_call_id : ToolCallIdArgs]
FinalArgs == {"a", "b"}

NoMessage == [role |-> "", content |-> Absent, tool_calls |-> Absent,
              tool_call_id |-> Absent]
NoCall == [op |-> "none", at |-> "none", msg |-> NoMessage, content |-> ""]
NotResumed == [loaded |-> FALSE, memory_id |-> 0, file_path |-> "",
               file_type |-> "", s3_url |-> "", messages |-> <<>>,
               finished |-> FALSE, final_content |-> ""]

\* core.py:23-27, core.py:65-73, memory.py:13-18: a memory just constructed
MemoryNew(class, s3_url) ==
    /\ mem_class = class
    /\ mem_s3_url = s3_url
    /\ mem_messages = <<>>
    /\ mem_finished = FALSE
    /\ mem_final_content = ""
    /\ mem_memory_id = 0
    /\ db = <<>>
    /\ mem_call = NoCall
    /\ mem_appended = <<>>
    /\ mem_marked = [returned |-> FALSE, content |-> "", calls |-> 0]
    /\ mem_last = [op |-> "none", ok |-> TRUE, failures |-> 0]
    /\ resumed = NotResumed

---------------------------------------------------------------------------
(* The event mirror and the frame cache: values *)

\* core.py:280 and main.py:107: the two generators that use CacheSSEUtils
Hosts == {"execute", "stream_factory"}

\* the part of a document the mirror writes
HistoryDoc == [client_history |-> <<>>]

\* sse_utils.py:223-228 and main.py:108-112, core.py:315-325: a stream that
\* has yielded nothing.  execute() has primed its MongoAgentMemory before it
\* builds sse, so the document exists; MongoSSECache starts with no document.
MirrorNew(h, cache) ==
    /\ host = h
    /\ enable_cache = cache
    /\ s_pc = "running"
    /\ requested = <<>>
    /\ stream = <<>>
    /\ mtasks = <<>>
    /\ sse_memory_id = IF h = "execute" THEN 1 ELSE 0
    /\ sse_docs = IF h = "execute" THEN << HistoryDoc >> ELSE <<>>

\* callers of _get_or_prepare_frames on one file_path
MaxCallers == 3
Callers == 1..MaxCallers

\* frames in an extracted list
FramesPerList == 2

\* langchain_tools.py:169: what _FRAME_CACHE.get gives when there is no list
NoList == 0

\* langchain_tools.py:39-40: both dicts empty, no call made
FrameCacheNew ==
    /\ fc_cache = NoList
    /\ fc_lock = [holder |-> 0, waiters |-> <<>>]
    /\ fc_pc = [c \in Callers |-> "idle"]
    /\ fc_ret = [c \in Callers |-> NoList]
    /\ fc_how = [c \in Callers |-> "none"]
    /\ fc_extractions = 0
    /\ fc_frames = <<>>
    /\ fc_uploads = {}

\* the two objects: the one of the original loop and the resumed one
Writers == {1, 2}

\* a message appended before the second object loaded the document
PriorMessage == [role |-> "user", content |-> "start audit"]

\* core.py:203-218: the original object has stored PriorMessage and the second
\* has loaded the document; both caches hold its list, no call is under way
WritersNew ==
    /\ w_doc = << PriorMessage >>
    /\ w_cache = [w \in Writers |-> << PriorMessage >>]
    /\ w_call = [w \in Writers |-> <<>>]
    /\ w_sent = [w \in Writers |-> <<>>]
    /\ w_snap = [w \in Writers |-> <<>>]

---------------------------------------------------------------------------
(* execute(): priming, core.py:313-327 *)

Init ==
    /\ pc = "start"
    /\ step_count = 0
    /\ finished = FALSE
    /\ final_content = <<>>
    /\ messages = <<>>
    /\ events = <<>>
    /\ tool_calls = <<>>
    /\ idx = 0
    /\ tasks = <<>>
    /\ tool_call_meta = <<>>
    /\ results = <<>>
    /\ completed = <<>>
    /\ result_iter = 0
    /\ modelCalls = 0
    /\ invoked = {}
    /\ variedLeft = MaxVariedTurns
    /\ varied = FALSE
    /\ memFault = "none"
    /\ current_messages = <<>>
    /\ MemoryNew("MongoAgentMemory", "")
    /\ MirrorNew("execute", FALSE)
    /\ FrameCacheNew
    /\ WritersNew

Prime ==
    /\ pc = "start"
    /\ messages' = messages \o << Msg("system", <<"SYSTEM_PROMPT">>, <<>>, None),
                                  Msg("user", <<"start audit">>, <<>>, None) >>
    /\ events' = Append(events, Ev("log", <<"agent start">>))
    /\ pc' = "loop"
    /\ UNCHANGED << step_count, finished, final_content, tool_calls, idx, tasks,
                    tool_call_meta, results, completed, result_iter, modelCalls,
                    invoked, variedLeft, varied >>
    /\ UNCHANGED extVars

---------------------------------------------------------------------------
(* execute(): the think-act loop, core.py:333-499 *)

\* the while condition off by one: a step is still entered at step_count = max_steps
LoopCondOffByOne == ~finished /\ step_count <= max_steps

\* the while condition without the finished flag: only the budget ends the loop
LoopCondBudgetOnly == step_count < max_steps

\* core.py:333, the while condition
LoopCond == ~finished /\ step_count < max_steps

\* a window of the log: the last two messages only
read_recent_messages == SubSeq(messages, Len(messages) - 1, Len(messages))

\* core.py:338, memory.get_messages() during a session: the whole log
\* (core.py:155-156 returns the list the appends went to)
read_messages == messages

\* core.py:333-338
LoopEnter ==
    /\ pc = "loop"
    /\ LoopCond
    /\ step_count' = step_count + 1
    /\ events' = Append(events, Ev("log", <<"thinking round " \o ToString(step_count + 1)>>))
    /\ pc' = "model"
    /\ UNCHANGED << finished, final_content, messages, tool_calls, idx, tasks,
                    tool_call_meta, results, completed, result_iter, modelCalls,
                    invoked, variedLeft, varied >>
    /\ current_messages' = read_messages
    /\ UNCHANGED << memFault, compVars >>

LoopExit ==
    /\ pc = "loop"
    /\ ~LoopCond
    /\ pc' = "after"
    /\ UNCHANGED << step_count, finished, final_content, messages, events,
                    tool_calls, idx, tasks, tool_call_meta, results, completed,
                    result_iter, modelCalls, invoked, variedLeft, varied >>
    /\ UNCHANGED extVars

\* core.py:495-499, the except branch of the loop body
FatalEvent == Ev("error", <<"fatal error">>)

\* core.py:358-367: the reply asks for tools
ToolsReply(content, calls, isVaried) ==
    /\ modelCalls' = modelCalls + 1
    /\ messages' = Append(messages, Msg("assistant", content, calls, None))
    /\ events' = events
                 \o (IF content # <<>> THEN << Ev("token", <<"> think: ">> \o content) >> ELSE <<>>)
                 \o << Ev("log", <<"parallel start " \o ToString(Len(calls))>>) >>
    /\ tool_calls' = calls
    /\ idx' = 1
    /\ tasks' = <<>>
    /\ tool_call_meta' = <<>>
    /\ results' = <<>>
    /\ completed' = <<>>
    /\ result_iter' = 0
    /\ varied' = isVaried
    /\ pc' = "dispatch"
    /\ UNCHANGED << step_count, finished, final_content, invoked >>
    /\ UNCHANGED extVars

ModelReplyDefault ==
    /\ pc = "model"
    /\ ToolsReply(<<>>, DefaultCalls(step_count), FALSE)
    /\ UNCHANGED variedLeft

ModelReplyVaried ==
    /\ pc = "model"
    /\ variedLeft > 0
    /\ variedLeft' = variedLeft - 1
    /\ \E n \in 1..MaxCalls : \E calls \in CallLists(step_count, n) :
         \E content \in Contents : ToolsReply(content, calls, TRUE)

\* the final report sent as one token holding the whole text
FinalReportWhole(content) ==
    IF content # <<>>
    THEN << Ev("final_report_start", <<>>), Ev("token", content),
            Ev("final_report_end", <<>>) >>
    ELSE <<>>

\* core.py:487-493: the final report, streamed character by character
FinalReportEvents(content) ==
    IF content # <<>>
    THEN << Ev("final_report_start", <<>>) >>
         \o [k \in 1..Len(content) |-> Ev("token", <<content[k]>>)]
         \o << Ev("final_report_end", <<>>) >>
    ELSE <<>>

\* core.py:480-493: the reply has no tool calls
ModelReplyFinal ==
    /\ pc = "model"
    /\ \E content \in Contents :
         /\ modelCalls' = modelCalls + 1
         /\ messages' = Append(messages, Msg("assistant", content, <<>>, None))
         /\ finished' = TRUE
         /\ final_content' = content
         /\ events' = Append(events, Ev("log", <<"writing final report">>))
                      \o FinalReportEvents(content)
    /\ pc' = "loop"
    /\ UNCHANGED << step_count, tool_calls, idx, tasks, tool_call_meta, results,
                    completed, result_iter, invoked, variedLeft, varied >>
    /\ UNCHANGED extVars

\* core.py:340-346 raises: the except branch emits one error and breaks
ModelRaise ==
    /\ pc = "model"
    /\ modelCalls' = modelCalls + 1
    /\ events' = Append(events, FatalEvent)
    /\ pc' = "after"
    /\ UNCHANGED << step_count, finished, final_content, messages, tool_calls,
                    idx, tasks, tool_call_meta, results, completed, result_iter,
                    invoked, variedLeft, varied >>
    /\ UNCHANGED extVars

\* core.py:369-410: one iteration of the for loop over ai_message.tool_calls
Dispatch ==
    /\ pc = "dispatch"
    /\ idx <= Len(tool_calls)
    /\ LET tool_call == tool_calls[idx]
           fn_name == tool_call.name
           parsed == ParseArgs(tool_call.arguments)
           log_msg == Ev("log", <<"start tool " \o fn_name>>)
       IN  IF parsed = "fail"
           THEN \* core.py:380-382
                /\ events' = Append(events, Ev("error", <<"args parse failed">>))
                /\ idx' = idx + 1
                /\ pc' = pc
                /\ UNCHANGED << tasks, tool_call_meta >>
           ELSE IF parsed = "other" /\ fn_name = "web_search"
           THEN \* core.py:386: fn_args.get raises, caught at core.py:495
                /\ events' = Append(events, FatalEvent)
                /\ pc' = "after"
                /\ UNCHANGED << idx, tasks, tool_call_meta >>
           ELSE IF fn_name \in tools_map /\ parsed = "other"
           THEN \* core.py:396: run(**fn_args) raises, caught at core.py:495
                /\ events' = events \o << log_msg, FatalEvent >>
                /\ pc' = "after"
                /\ UNCHANGED << idx, tasks, tool_call_meta >>
           ELSE IF fn_name \in tools_map
           THEN \* core.py:393-401
                /\ events' = Append(events, log_msg)
                /\ tasks' = Append(tasks, tool_call.id)
                /\ tool_call_meta' = Append(tool_call_meta,
                       [valid |-> TRUE, tool_call |-> tool_call, name |-> fn_name,
                        error |-> ""])
                /\ idx' = idx + 1
                /\ pc' = pc
           ELSE \* core.py:402-410
                /\ events' = Append(events, log_msg)
                /\ tasks' = Append(tasks, None)
                /\ tool_call_meta' = Append(tool_call_meta,
                       [valid |-> FALSE, tool_call |-> tool_call, name |-> fn_name,
                        error |-> "Tool " \o fn_name \o " not found"])
                /\ idx' = idx + 1
                /\ pc' = pc
    /\ UNCHANGED << step_count, finished, final_content, messages, tool_calls,
                    results, completed, result_iter, modelCalls, invoked,
                    variedLeft, varied >>
    /\ UNCHANGED extVars

\* core.py:416
valid_coroutines == SelectSeq(tasks, LAMBDA t : t # None)

\* core.py:414-419: the for loop is over; gather starts every valid coroutine
Gather ==
    /\ pc = "dispatch"
    /\ idx > Len(tool_calls)
    /\ IF tasks # <<>>
       THEN /\ results' = [k \in 1..Len(valid_coroutines) |-> Pending]
            /\ invoked' = invoked \cup {valid_coroutines[k] : k \in 1..Len(valid_coroutines)}
            /\ pc' = "acting"
       ELSE /\ pc' = "loop"
            /\ UNCHANGED << results, invoked >>
    /\ UNCHANGED << step_count, finished, final_content, messages, events,
                    tool_calls, idx, tasks, tool_call_meta, completed,
                    result_iter, modelCalls, variedLeft, varied >>
    /\ UNCHANGED extVars

\* one tool.run returns or raises; gather stores the outcome in the slot of
\* its coroutine
Complete ==
    /\ pc = "acting"
    /\ \E k \in 1..Len(results) :
         /\ results[k] = Pending
         /\ \E o \in (IF varied THEN Outcomes ELSE {Returned(PlainEnvelope)}) :
              results' = [results EXCEPT ![k] = o]
         /\ completed' = Append(completed, k)
    /\ UNCHANGED << pc, step_count, finished, final_content, messages, events,
                    tool_calls, idx, tasks, tool_call_meta, result_iter,
                    modelCalls, invoked, variedLeft, varied >>
    /\ UNCHANGED extVars

\* gather without return_exceptions: a tool's exception leaves gather
GatherRaisesFirst(res) == \E k \in 1..Len(res) : res[k].kind = "raise"

\* core.py:419, return_exceptions=True: gather never raises a tool's exception
GatherRaises(res) == FALSE

\* a wait that ends at the first exception: every invocation is over, or one
\* of them has raised
gather_first_exception(res) ==
    \/ \A k \in 1..Len(res) : res[k] # Pending
    \/ \E k \in 1..Len(res) : res[k].kind = "raise"

\* a wait that ends only when every invocation has returned: one that raised
\* is waited for without end
gather_all_returned(res) == \A k \in 1..Len(res) : res[k].kind = "ok"

\* core.py:419: gather returns once every coroutine has returned or raised
gather_returns(res) == \A k \in 1..Len(res) : res[k] # Pending

\* core.py:419-422: every invocation is over, gather returns
GatherDone ==
    /\ pc = "acting"
    /\ gather_returns(results)
    /\ IF GatherRaises(results)
       THEN /\ events' = Append(events, FatalEvent)
            /\ pc' = "after"
            /\ UNCHANGED << idx, result_iter >>
       ELSE /\ pc' = "observe"
            /\ idx' = 1
            /\ result_iter' = 0
            /\ UNCHANGED events
    /\ UNCHANGED << step_count, finished, final_content, messages, tool_calls,
                    tasks, tool_call_meta, results, completed, modelCalls,
                    invoked, variedLeft, varied >>
    /\ UNCHANGED extVars

\* positions of tool_call_meta that hold a valid / an invalid call, in order
ValidPositions ==
    SelectSeq([j \in 1..Len(tool_call_meta) |-> j], LAMBDA j : tool_call_meta[j].valid)
InvalidPositions ==
    SelectSeq([j \in 1..Len(tool_call_meta) |-> j], LAMBDA j : ~tool_call_meta[j].valid)

\* the result loop visiting the calls as their invocations completed
\* (asyncio.as_completed), the unregistered ones last
MetaAtCompleted(j) ==
    tool_call_meta[([m \in 1..Len(completed) |-> ValidPositions[completed[m]]]
                    \o InvalidPositions)[j]]

\* core.py:425: the j-th entry the result loop visits
MetaAt(j) == tool_call_meta[j]

\* the results read in the order the invocations completed
next_completed == results[completed[result_iter + 1]]

\* core.py:422, 434: res = next(result_iter), the results read in the order
\* of valid_coroutines
next_result == results[result_iter + 1]

\* a frontend layer that sends the finding whenever the key is there
has_violation_check(env) == env.violation_check # <<>>

\* core.py:460-462: "violation_check" in result_dict and
\* v_data.get("is_violation") is true
is_violation(env) ==
    /\ env.violation_check # <<>>
    /\ env.violation_check[1].is_violation = <<TRUE>>

\* core.py:465: v_data.get("segments", [])
get_segments(v) == IF v.segments = <<>> THEN <<>> ELSE v.segments[1]

\* core.py:463-466: frontend_data, the flag and then the time anchors
frontend_data(v) == <<"is_violation">> \o get_segments(v)

\* core.py:444-471: the frontend events of a returned envelope
EnvelopeEvents(env, fn_name) ==
    (IF env.preview_images THEN << Ev("images", <<"preview">>) >> ELSE <<>>)
    \o (IF env.corrected_text # <<>>
        THEN << Ev("audio_text_start", <<>>) >>
             \o [i \in 1..Len(env.corrected_text[1]) |->
                    Ev("audio_text_chunk", << env.corrected_text[1][i] >>)]
        ELSE <<>>)
    \o (IF is_violation(env)
        THEN << Ev("violation_data", frontend_data(env.violation_check[1])) >>
        ELSE <<>>)
    \o << Ev("log", <<"done tool " \o fn_name>>) >>

\* core.py:425-478: one iteration of the for loop over tool_call_meta
Observe ==
    /\ pc = "observe"
    /\ idx <= Len(tool_call_meta)
    /\ LET meta == MetaAt(idx)
           res == next_result
       IN  IF ~meta.valid
           THEN /\ events' = Append(events, Ev("error", <<meta.error>>))
                /\ messages' = Append(messages,
                       Msg("tool", <<JsonError(meta.error)>>, <<>>, meta.tool_call.id))
                /\ UNCHANGED result_iter
           ELSE /\ result_iter' = result_iter + 1
                /\ IF res.kind = "raise"
                   THEN /\ events' = Append(events,
                               Ev("error", <<"tool " \o meta.name \o " raised: " \o res.msg>>))
                        /\ messages' = Append(messages,
                               Msg("tool", <<JsonError(res.msg)>>, <<>>, meta.tool_call.id))
                   ELSE /\ events' = events \o EnvelopeEvents(res.env, meta.name)
                        /\ messages' = Append(messages,
                               Msg("tool", <<JsonEnvelope(res.env)>>, <<>>, meta.tool_call.id))
    /\ idx' = idx + 1
    /\ UNCHANGED << pc, step_count, finished, final_content, tool_calls, tasks,
                    tool_call_meta, results, completed, modelCalls, invoked,
                    variedLeft, varied >>
    /\ UNCHANGED extVars

\* the result loop is over: back to the while condition
ObserveEnd ==
    /\ pc = "observe"
    /\ idx > Len(tool_call_meta)
    /\ pc' = "loop"
    /\ UNCHANGED << step_count, finished, final_content, messages, events,
                    tool_calls, idx, tasks, tool_call_meta, results, completed,
                    result_iter, modelCalls, invoked, variedLeft, varied >>
    /\ UNCHANGED extVars

BudgetEvent == Ev("error", <<"max steps reached">>)

\* core.py:501-502
AfterLoop ==
    /\ pc = "after"
    /\ events' = IF step_count >= max_steps THEN Append(events, BudgetEvent) ELSE events
    /\ pc' = "done"
    /\ UNCHANGED << step_count, finished, final_content, messages, tool_calls,
                    idx, tasks, tool_call_meta, results, completed, result_iter,
                    modelCalls, invoked, variedLeft, varied >>
    /\ UNCHANGED extVars

Next ==
    \/ Prime
    \/ LoopEnter
    \/ LoopExit
    \/ ModelReplyDefault
    \/ ModelReplyVaried
    \/ ModelReplyFinal
    \/ ModelRaise
    \/ Dispatch
    \/ Gather
    \/ Complete
    \/ GatherDone
    \/ Observe
    \/ ObserveEnd
    \/ AfterLoop


Spec == Init /\ [][Next]_vars

---------------------------------------------------------------------------
(* Reading the message log and the event stream *)

AssistantIdx == { k \in 1..Len(messages) : messages[k].role = "assistant" }

\* number of replies of the LLM that reached memory
AssistantCount == Cardinality(AssistantIdx)

\* the assistant message a later message k answers (0 if none)
RECURSIVE PrevAssistant(_)
PrevAssistant(k) ==
    IF k <= 1 THEN 0
    ELSE IF messages[k - 1].role = "assistant" THEN k - 1
    ELSE PrevAssistant(k - 1)

\* the next assistant message after k, or the end of the log
RECURSIVE NextAssistant(_)
NextAssistant(k) ==
    IF k >= Len(messages) THEN Len(messages) + 1
    ELSE IF messages[k + 1].role = "assistant" THEN k + 1
    ELSE NextAssistant(k + 1)

\* the tool-role messages between assistant message a and the next one that
\* answer the call id
Answers(a, id) ==
    { k \in (a + 1)..(NextAssistant(a) - 1) :
        messages[k].role = "tool" /\ messages[k].tool_call_id = id }

\* position of the call with this id in a tool_calls list (0 if absent)
PosIn(calls, id) ==
    IF \E p \in 1..Len(calls) : calls[p].id = id
    THEN CHOOSE p \in 1..Len(calls) : calls[p].id = id
    ELSE 0

ErrorEvents(from) == { k \in from..Len(events) : events[k].type = "error" }

EventsOfType(t) == { k \in 1..Len(events) : events[k].type = t }

\* a model call raised: it counts as a call and left no assistant message
ModelRaised == modelCalls > AssistantCount

\* the calls of the current step that were given to gather, with the slot of
\* their result
SlotOf(j) == Cardinality({ i \in 1..j : tool_call_meta[i].valid })

StepGathered ==
    /\ results # <<>>
    /\ \A k \in 1..Len(results) : results[k] # Pending

---------------------------------------------------------------------------
(* C1..C10 *)

\* C1: the tool-role messages of a step are in the order of the calls in the
\* assistant message's tool_calls list, whatever order the invocations
\* completed in: of two tool-role messages answering the same assistant
\* message, the earlier one answers the earlier call.
C1_OrderPreserved ==
    \A k \in 1..Len(messages) :
        messages[k].role = "tool"
        => LET a == PrevAssistant(k)
               pos == IF a = 0 THEN 0
                      ELSE PosIn(messages[a].tool_calls, messages[k].tool_call_id)
           IN  /\ pos > 0
               /\ \A l \in (a + 1)..(k - 1) :
                    LET before == PosIn(messages[a].tool_calls, messages[l].tool_call_id)
                    IN  0 < before /\ before < pos

\* C1 witness: the second call's invocation completed first and both
\* tool-role messages are in the log
C1_Witness ==
    /\ completed = <<2, 1>>
    /\ pc = "loop"
    /\ Len(messages) >= 2
    /\ messages[Len(messages)].role = "tool"
    /\ messages[Len(messages) - 1].role = "tool"

\* C2 (as claimed): at every model call, each assistant message with tool
\* calls is followed, before the next assistant message, by exactly one
\* tool-role message per requested call.
C2_AdjacencyAtThinking ==
    pc = "model" =>
        \A a \in AssistantIdx :
            \A p \in 1..Len(messages[a].tool_calls) :
                Cardinality(Answers(a, messages[a].tool_calls[p].id)) = 1

\* C3: when some invocations given to gather raise, every call of the step
\* still has its tool-role message once the result loop is over (the
\* {"error": msg} envelope for a raising call, the serialized envelope for a
\* returning one), and the session then stops only after another model call
\* or with the step budget used up.
C3_FaultIsolation ==
    ( /\ StepGathered
      /\ \E k \in 1..Len(results) : results[k].kind = "raise"
      /\ pc \notin {"acting", "observe"} )
    => LET a == CHOOSE x \in AssistantIdx :
                    messages[x].tool_calls = tool_calls
       IN  /\ \E x \in AssistantIdx : messages[x].tool_calls = tool_calls
           /\ \A j \in 1..Len(tool_call_meta) :
                tool_call_meta[j].valid =>
                  LET res == results[SlotOf(j)]
                      ans == Answers(a, tool_call_meta[j].tool_call.id)
                  IN  /\ Cardinality(ans) = 1
                      /\ \A k \in ans :
                           messages[k].content =
                             IF res.kind = "raise"
                             THEN << JsonError(res.msg) >>
                             ELSE << JsonEnvelope(res.env) >>
           /\ pc \in {"after", "done"} =>
                \/ step_count >= max_steps
                \/ modelCalls > Cardinality({ x \in AssistantIdx : x <= a })

\* C3 witness: one invocation raised, its sibling returned, and the next
\* model call is being made
C3_Witness ==
    /\ pc = "model"
    /\ Len(results) = 2
    /\ results[1].kind = "raise"
    /\ results[2].kind = "ok"

\* C4 (as claimed): at every model call, each earlier call whose argument
\* blob failed to parse is answered by a tool-role message with its
\* tool_call_id.
C4_ParseFailureSurfaced ==
    pc = "model" =>
        \A a \in AssistantIdx :
            \A p \in 1..Len(messages[a].tool_calls) :
                ParseArgs(messages[a].tool_calls[p].arguments) = "fail"
                => Answers(a, messages[a].tool_calls[p].id) # {}

\* C5 (as claimed): a call that names an unregistered tool is never invoked
\* and, at the next model call, is answered by exactly one tool-role message
\* {"error": "Tool <name> not found"}; the step emits one error event per
\* such call.
C5_UnregisteredAnswered ==
    /\ \A a \in AssistantIdx :
         \A p \in 1..Len(messages[a].tool_calls) :
           messages[a].tool_calls[p].name \notin tools_map
           => messages[a].tool_calls[p].id \notin invoked
    /\ pc = "model" =>
         \A a \in AssistantIdx :
           \A p \in 1..Len(messages[a].tool_calls) :
             LET c == messages[a].tool_calls[p]
             IN  c.name \notin tools_map
                 => /\ Cardinality(Answers(a, c.id)) = 1
                    /\ \A k \in Answers(a, c.id) :
                         messages[k].content =
                           << JsonError("Tool " \o c.name \o " not found") >>
    /\ pc = "model" =>
         Cardinality({ k \in 1..Len(events) :
                         events[k] = Ev("error", <<"Tool foo not found">>) })
         = Cardinality({ k \in 1..Len(messages) :
                         /\ messages[k].role = "tool"
                         /\ messages[k].content = << JsonError("Tool foo not found") >> })

\* C6: no session makes more than max_steps model calls, and a session that
\* ends without a final answer and without a fatal error made exactly
\* max_steps of them and ends with the step-budget event.
C6_BudgetExact ==
    /\ modelCalls <= max_steps
    /\ ( pc = "done" /\ ~finished /\ \A k \in 1..Len(events) : events[k] # FatalEvent )
       => /\ modelCalls = max_steps
          /\ events[Len(events)] = BudgetEvent
          /\ Cardinality({ k \in 1..Len(events) : events[k] = BudgetEvent }) = 1

\* C6 witness: the LLM asked for a valid tool in every turn
C6_Witness ==
    /\ pc = "done"
    /\ variedLeft = MaxVariedTurns
    /\ ~finished
    /\ AssistantCount = max_steps

\* C7 (as claimed): the step-budget event is only ever in the stream of a
\* session that is not finished.
C7_BudgetOnlyUnfinished ==
    (\E k \in 1..Len(events) : events[k] = BudgetEvent) => ~finished

\* C8 (as claimed): the last event of a session's stream is final_report_end
\* or an error event.
C8_TerminalEvent ==
    pc = "done" =>
        /\ events # <<>>
        /\ events[Len(events)].type \in {"final_report_end", "error"}

\* C9: once the LLM has given a non-empty final answer s, the stream holds
\* exactly one final_report_start and one final_report_end, with exactly the
\* token events of the characters of s, in order, between them; the memory is
\* finished and the final assistant message stays the last message, with no
\* model call after it.
C9_FinalReport ==
    ( finished /\ final_content # <<>> )
    => /\ Cardinality(EventsOfType("final_report_start")) = 1
       /\ Cardinality(EventsOfType("final_report_end")) = 1
       /\ \A b \in EventsOfType("final_report_start") :
            /\ b + Len(final_content) + 1 <= Len(events)
            /\ \A k \in 1..Len(final_content) :
                 events[b + k] = Ev("token", << final_content[k] >>)
            /\ events[b + Len(final_content) + 1].type = "final_report_end"
       /\ messages[Len(messages)] = Msg("assistant", final_content, <<>>, None)
       /\ modelCalls = AssistantCount
       /\ pc \in {"loop", "after", "done"}

\* C9 witness: a session that ended after a non-empty final answer
C9_Witness ==
    /\ pc = "done"
    /\ finished
    /\ final_content = <<"o", "k">>

\* C10 (as claimed): after a model call raised, the stream ends with the one
\* error event of that failure: no further error event follows it.
C10_SingleErrorAfterModelRaise ==
    ModelRaised =>
        /\ pc \in {"after", "done"}
        /\ \E f \in 1..Len(events) :
             /\ events[f] = FatalEvent
             /\ ErrorEvents(f) = {f}

---------------------------------------------------------------------------
(* execute() when a durable write of the memory raises.
   MongoAgentMemory.add_message appends to the cached list and then awaits
   the update (core.py:127-135); mark_finished sets the flags and then
   awaits the update (core.py:175-189).  A raise of the update therefore
   leaves the cached change in place. *)

\* core.py:318: the insert of _initialize_memory or the update of the system
\* message raises.  The statement is outside the try of the loop body, so
\* the exception leaves the generator: no event is yielded.
PrimeSystemFails ==
    /\ pc = "start"
    /\ \E cached \in BOOLEAN :
         messages' = IF cached
                     THEN Append(messages, Msg("system", <<"SYSTEM_PROMPT">>, <<>>, None))
                     ELSE messages
    /\ pc' = "raised"
    /\ memFault' = "prime"
    /\ UNCHANGED current_messages
    /\ UNCHANGED compVars
    /\ UNCHANGED << step_count, finished, final_content, events, tool_calls, idx,
                    tasks, tool_call_meta, results, completed, result_iter,
                    modelCalls, invoked, variedLeft, varied >>

\* core.py:319: the update of the user message raises, outside the try
PrimeUserFails ==
    /\ pc = "start"
    /\ messages' = messages \o << Msg("system", <<"SYSTEM_PROMPT">>, <<>>, None),
                                  Msg("user", <<"start audit">>, <<>>, None) >>
    /\ pc' = "raised"
    /\ memFault' = "prime"
    /\ UNCHANGED current_messages
    /\ UNCHANGED compVars
    /\ UNCHANGED << step_count, finished, final_content, events, tool_calls, idx,
                    tasks, tool_call_meta, results, completed, result_iter,
                    modelCalls, invoked, variedLeft, varied >>

\* core.py:351-355 raises after the model replied: caught at core.py:495
AssistantAppendFails ==
    /\ pc = "model"
    /\ \E content \in Contents : \E calls \in {<<>>, DefaultCalls(step_count)} :
         messages' = Append(messages, Msg("assistant", content, calls, None))
    /\ modelCalls' = modelCalls + 1
    /\ events' = Append(events, FatalEvent)
    /\ pc' = "after"
    /\ memFault' = "append"
    /\ UNCHANGED current_messages
    /\ UNCHANGED compVars
    /\ UNCHANGED << step_count, finished, final_content, tool_calls, idx, tasks,
                    tool_call_meta, results, completed, result_iter, invoked,
                    variedLeft, varied >>

\* core.py:483 raises: the assistant message is stored, the flags are set in
\* memory, the update raises and is caught at core.py:495
MarkFinishedFails ==
    /\ pc = "model"
    /\ \E content \in Contents :
         /\ messages' = Append(messages, Msg("assistant", content, <<>>, None))
         /\ final_content' = content
    /\ finished' = TRUE
    /\ modelCalls' = modelCalls + 1
    /\ events' = Append(events, FatalEvent)
    /\ pc' = "after"
    /\ memFault' = "mark"
    /\ UNCHANGED current_messages
    /\ UNCHANGED compVars
    /\ UNCHANGED << step_count, tool_calls, idx, tasks, tool_call_meta, results,
                    completed, result_iter, invoked, variedLeft, varied >>

\* core.py:474-478 raises: the events of this result were already yielded
\* (core.py:430-471), the exception is caught at core.py:495
ToolAppendFails ==
    /\ pc = "observe"
    /\ idx <= Len(tool_call_meta)
    /\ LET meta == MetaAt(idx)
           res == next_result
       IN  IF ~meta.valid
           THEN /\ events' = events \o << Ev("error", <<meta.error>>), FatalEvent >>
                /\ messages' = Append(messages,
                       Msg("tool", <<JsonError(meta.error)>>, <<>>, meta.tool_call.id))
                /\ UNCHANGED result_iter
           ELSE /\ result_iter' = result_iter + 1
                /\ IF res.kind = "raise"
                   THEN /\ events' = events
                               \o << Ev("error", <<"tool " \o meta.name \o " raised: " \o res.msg>>),
                                     FatalEvent >>
                        /\ messages' = Append(messages,
                               Msg("tool", <<JsonError(res.msg)>>, <<>>, meta.tool_call.id))
                   ELSE /\ events' = events \o EnvelopeEvents(res.env, meta.name)
                                     \o << FatalEvent >>
                        /\ messages' = Append(messages,
                               Msg("tool", <<JsonEnvelope(res.env)>>, <<>>, meta.tool_call.id))
    /\ pc' = "after"
    /\ memFault' = "append"
    /\ UNCHANGED current_messages
    /\ UNCHANGED compVars
    /\ UNCHANGED << step_count, finished, final_content, tool_calls, idx, tasks,
                    tool_call_meta, results, completed, modelCalls, invoked,
                    variedLeft, varied >>

NextFaults ==
    \/ Next
    \/ PrimeSystemFails
    \/ PrimeUserFails
    \/ AssistantAppendFails
    \/ MarkFinishedFails
    \/ ToolAppendFails

\* one run of execute() in which one durable write of the memory may raise
SpecFaults == Init /\ [][NextFaults]_vars

\* C11 (as claimed): once a write of the memory has raised, at priming or in
\* the loop, the loop has stopped and the stream holds an error event.
C11_PersistenceFailureSurfaced ==
    memFault # "none" =>
        /\ pc \notin {"start", "loop", "model", "dispatch", "acting", "observe"}
        /\ ErrorEvents(1) # {}

\* C12 (as claimed): the loop is aborted by the except branch only when the
\* model call or a write of the memory raised; nothing that starts inside a
\* tool call (its arguments, its run, its result) puts the fatal error on
\* the stream.
C12_ToolFaultsContained ==
    ( \E k \in 1..Len(events) : events[k] = FatalEvent )
        => ( ModelRaised \/ memFault # "none" )

---------------------------------------------------------------------------
(* The memory classes driven through their interface: AgentMemory
   (core.py:20-56), memory.AgentMemory (memory.py:6-50) and MongoAgentMemory
   (core.py:59-218) over the collection agent_memories. *)

\* most add_message calls that store a message, most mark_finished calls
MaxAppends == 2
MaxMarks == 2
\* most calls of one memory in which the store raises
MaxStoreFailures == 1

TruthyList(opt) == opt # Absent /\ Len(opt[1]) > 0
TruthyString(opt) == opt # Absent /\ opt[1] # ""

\* core.py:31-37: every argument that is not None becomes a key
StoredInProcess(m) ==
    [role |-> m.role,
     content |-> IF m.content # Absent THEN m.content ELSE Absent,
     tool_calls |-> IF m.tool_calls # Absent THEN m.tool_calls ELSE Absent,
     tool_call_id |-> IF m.tool_call_id # Absent THEN m.tool_call_id ELSE Absent]

\* memory.py:22-28: content is always a key; tool_calls and tool_call_id
\* become keys only when truthy
StoredLegacy(m) ==
    [role |-> m.role,
     content |-> m.content,
     tool_calls |-> IF TruthyList(m.tool_calls) THEN m.tool_calls ELSE Absent,
     tool_call_id |-> IF TruthyString(m.tool_call_id) THEN m.tool_call_id ELSE Absent]

\* core.py:106-111: model_dump() / a dict as it is
model_dump(tc) == [tc EXCEPT !.form = "dict"]

\* core.py:97-124: tool calls are stored as dicts
StoredMongo(m) ==
    [role |-> m.role,
     content |-> IF m.content # Absent THEN m.content ELSE Absent,
     tool_calls |-> IF m.tool_calls # Absent
                    THEN Some([k \in 1..Len(m.tool_calls[1]) |->
                                   model_dump(m.tool_calls[1][k])])
                    ELSE Absent,
     tool_call_id |-> IF m.tool_call_id # Absent THEN m.tool_call_id ELSE Absent]

\* core.py:76-89: the document _initialize_memory inserts
memory_doc ==
    [file_path |-> FilePath, file_type |-> FileType, s3_url |-> mem_s3_url,
     messages |-> <<>>, finished |-> FALSE, final_content |-> ""]

\* $push at the wrong end of the list
PushMessageFront(doc, msg) == [doc EXCEPT !.messages = <<msg>> \o @]

\* core.py:131-135: {"$push": {"messages": msg}}
PushMessage(doc, msg) == [doc EXCEPT !.messages = Append(@, msg)]

\* core.py:179-189: {"$set": {"finished": True, "final_content": content}}
SetFinished(doc, content) ==
    [doc EXCEPT !.finished = TRUE, !.final_content = content]

\* the first final text is kept
FinalContentFirst(old, was_finished, content) ==
    IF was_finished THEN old ELSE content

\* core.py:47-48, core.py:175-176, memory.py:46-47: the last final text wins
FinalContentSet(old, was_finished, content) == content

Ended(op, ok) ==
    [op |-> op, ok |-> ok,
     failures |-> IF ok THEN mem_last.failures ELSE mem_last.failures + 1]

notMemVars == << coreVars, memFault, current_messages, mirVars, fcVars, wrVars >>

\* core.py:29-39 and memory.py:20-30: add_message of the in-process classes
AddMessageInProcess ==
    /\ mem_class \in {"AgentMemory", "memory.AgentMemory"}
    /\ Len(mem_appended) < MaxAppends
    /\ \E m \in MessageArgs :
         /\ mem_messages' = Append(mem_messages,
                IF mem_class = "AgentMemory" THEN StoredInProcess(m) ELSE StoredLegacy(m))
         /\ mem_appended' = Append(mem_appended, m)
         /\ mem_last' = Ended("add_message", TRUE)
    /\ UNCHANGED << mem_class, mem_s3_url, mem_finished, mem_final_content,
                    mem_memory_id, db, mem_call, mem_marked, resumed >>
    /\ UNCHANGED notMemVars

\* core.py:45-48 and memory.py:44-47: mark_finished of the in-process classes
MarkFinishedInProcess ==
    /\ mem_class \in {"AgentMemory", "memory.AgentMemory"}
    /\ mem_marked.calls < MaxMarks
    /\ \E content \in FinalArgs :
         /\ mem_finished' = TRUE
         /\ mem_final_content' = FinalContentSet(mem_final_content, mem_finished, content)
         /\ mem_marked' = [returned |-> TRUE, content |-> content,
                           calls |-> mem_marked.calls + 1]
         /\ mem_last' = Ended("mark_finished", TRUE)
    /\ UNCHANGED << mem_class, mem_s3_url, mem_messages, mem_memory_id, db,
                    mem_call, mem_appended, resumed >>
    /\ UNCHANGED notMemVars

\* core.py:92-135 up to the first await that suspends: with no document yet
\* the insert of _initialize_memory (core.py:90), otherwise the message is
\* built, appended to the cache (core.py:127) and the update is awaited
AddMessageCall ==
    /\ mem_class = "MongoAgentMemory"
    /\ mem_call.op = "none"
    /\ ~resumed.loaded
    /\ Len(mem_appended) < MaxAppends
    /\ \E m \in MessageArgs :
         IF mem_memory_id = 0
         THEN /\ mem_call' = [op |-> "add_message", at |-> "insert", msg |-> m,
                              content |-> ""]
              /\ UNCHANGED << mem_messages, mem_appended >>
         ELSE /\ mem_call' = [op |-> "add_message", at |-> "update", msg |-> m,
                              content |-> ""]
              /\ mem_messages' = Append(mem_messages, StoredMongo(m))
              /\ mem_appended' = Append(mem_appended, m)
    /\ UNCHANGED << mem_class, mem_s3_url, mem_finished, mem_final_content,
                    mem_memory_id, db, mem_marked, mem_last, resumed >>
    /\ UNCHANGED notMemVars

\* core.py:171-189 up to the first await that suspends
MarkFinishedCall ==
    /\ mem_class = "MongoAgentMemory"
    /\ mem_call.op = "none"
    /\ ~resumed.loaded
    /\ mem_marked.calls < MaxMarks
    /\ \E content \in FinalArgs :
         /\ mem_marked' = [mem_marked EXCEPT !.content = content, !.calls = @ + 1]
         /\ IF mem_memory_id = 0
            THEN /\ mem_call' = [op |-> "mark_finished", at |-> "insert",
                                 msg |-> NoMessage, content |-> content]
                 /\ UNCHANGED << mem_finished, mem_final_content >>
            ELSE /\ mem_call' = [op |-> "mark_finished", at |-> "update",
                                 msg |-> NoMessage, content |-> content]
                 /\ mem_finished' = TRUE
                 /\ mem_final_content' =
                        FinalContentSet(mem_final_content, mem_finished, content)
    /\ UNCHANGED << mem_class, mem_s3_url, mem_messages, mem_memory_id, db,
                    mem_appended, mem_last, resumed >>
    /\ UNCHANGED notMemVars

\* core.py:90 returns: the document exists, _memory_id is set, and the call
\* runs on to its update (core.py:127-131 or core.py:175-179)
InsertDone ==
    /\ mem_call.at = "insert"
    /\ db' = Append(db, memory_doc)
    /\ mem_memory_id' = Len(db) + 1
    /\ mem_call' = [mem_call EXCEPT !.at = "update"]
    /\ IF mem_call.op = "add_message"
       THEN /\ mem_messages' = Append(mem_messages, StoredMongo(mem_call.msg))
            /\ mem_appended' = Append(mem_appended, mem_call.msg)
            /\ UNCHANGED << mem_finished, mem_final_content >>
       ELSE /\ mem_finished' = TRUE
            /\ mem_final_content' =
                   FinalContentSet(mem_final_content, mem_finished, mem_call.content)
            /\ UNCHANGED << mem_messages, mem_appended >>
    /\ UNCHANGED << mem_class, mem_s3_url, mem_marked, mem_last, resumed >>
    /\ UNCHANGED notMemVars

\* core.py:90 raises (mongo_utils.py:505-509): the call raises, nothing changed
InsertFails ==
    /\ mem_call.at = "insert"
    /\ mem_last.failures < MaxStoreFailures
    /\ mem_last' = Ended(mem_call.op, FALSE)
    /\ mem_call' = NoCall
    /\ UNCHANGED << mem_class, mem_s3_url, mem_messages, mem_finished,
                    mem_final_content, mem_memory_id, db, mem_appended,
                    mem_marked, resumed >>
    /\ UNCHANGED notMemVars

\* core.py:131-135 or core.py:179-189 returns: the document is updated and
\* the call returns
UpdateDone ==
    /\ mem_call.at = "update"
    /\ db' = [db EXCEPT ![mem_memory_id] =
                 IF mem_call.op = "add_message"
                 THEN PushMessage(@, StoredMongo(mem_call.msg))
                 ELSE SetFinished(@, mem_call.content)]
    /\ mem_marked' = IF mem_call.op = "mark_finished"
                     THEN [mem_marked EXCEPT !.returned = TRUE]
                     ELSE mem_marked
    /\ mem_last' = Ended(mem_call.op, TRUE)
    /\ mem_call' = NoCall
    /\ UNCHANGED << mem_class, mem_s3_url, mem_messages, mem_finished,
                    mem_final_content, mem_memory_id, mem_appended, resumed >>
    /\ UNCHANGED notMemVars

\* the update raises (mongo_utils.py:614-618): the call raises, the cached
\* change stays
UpdateFails ==
    /\ mem_call.at = "update"
    /\ mem_last.failures < MaxStoreFailures
    /\ mem_last' = Ended(mem_call.op, FALSE)
    /\ mem_call' = NoCall
    /\ UNCHANGED << mem_class, mem_s3_url, mem_messages, mem_finished,
                    mem_final_content, mem_memory_id, db, mem_appended,
                    mem_marked, resumed >>
    /\ UNCHANGED notMemVars

\* core.py:203-218 on a second MongoAgentMemory, constructed (core.py:65-73)
\* with some s3_url, given the identifier of the first
load_from_mongo ==
    /\ mem_class = "MongoAgentMemory"
    /\ mem_call.op = "none"
    /\ mem_memory_id # 0
    /\ ~resumed.loaded
    /\ \E s3_url \in S3Urls :
         LET doc == db[mem_memory_id]
         IN  resumed' = [loaded |-> TRUE,
                         memory_id |-> mem_memory_id,
                         file_path |-> doc.file_path,
                         file_type |-> doc.file_type,
                         s3_url |-> s3_url,
                         messages |-> doc.messages,
                         finished |-> doc.finished,
                         final_content |-> doc.final_content]
    /\ UNCHANGED << mem_class, mem_s3_url, mem_messages, mem_finished,
                    mem_final_content, mem_memory_id, db, mem_call,
                    mem_appended, mem_marked, mem_last >>
    /\ UNCHANGED notMemVars

\* a memory of any of the three classes, just constructed
InitMemory ==
    /\ pc = "start"
    /\ step_count = 0
    /\ finished = FALSE
    /\ final_content = <<>>
    /\ messages = <<>>
    /\ events = <<>>
    /\ tool_calls = <<>>
    /\ idx = 0
    /\ tasks = <<>>
    /\ tool_call_meta = <<>>
    /\ results = <<>>
    /\ completed = <<>>
    /\ result_iter = 0
    /\ modelCalls = 0
    /\ invoked = {}
    /\ variedLeft = 0
    /\ varied = FALSE
    /\ memFault = "none"
    /\ current_messages = <<>>
    /\ \/ \E class \in MemoryClasses \ {"MongoAgentMemory"} : MemoryNew(class, "")
       \/ \E s3_url \in S3Urls : MemoryNew("MongoAgentMemory", s3_url)
    /\ MirrorNew("execute", FALSE)
    /\ FrameCacheNew
    /\ WritersNew

\* get_messages taking the list from the store whenever the memory has a
\* document
messages_reloaded ==
    IF mem_memory_id # 0 THEN db[mem_memory_id].messages ELSE mem_messages

\* core.py:153-169 and core.py:41-43, the log after get_messages: the cache
\* itself when it holds a message; else MongoAgentMemory queries _id, an
\* ObjectId, with the string self._memory_id (core.py:161-164), no document
\* matches and the cache stays empty
messages_after_get ==
    IF mem_messages # <<>> THEN mem_messages
    ELSE LET doc == Absent
         IN  IF mem_class = "MongoAgentMemory" /\ mem_memory_id # 0 /\ doc # Absent
             THEN doc[1].messages
             ELSE mem_messages

\* get_messages of the three classes, at any point between two awaits
GetMessages ==
    /\ mem_messages' = messages_after_get
    /\ UNCHANGED << mem_class, mem_s3_url, mem_finished, mem_final_content,
                    mem_memory_id, db, mem_call, mem_appended, mem_marked,
                    mem_last, resumed >>
    /\ UNCHANGED notMemVars

NextMemory ==
    \/ AddMessageInProcess
    \/ GetMessages
    \/ MarkFinishedInProcess
    \/ AddMessageCall
    \/ MarkFinishedCall
    \/ InsertDone
    \/ InsertFails
    \/ UpdateDone
    \/ UpdateFails
    \/ load_from_mongo

\* any sequence of add_message and mark_finished calls on one memory
SpecMemory == InitMemory /\ [][NextMemory]_vars

---------------------------------------------------------------------------
(* Reading a memory *)

\* core.py:41-43, memory.py:40-42, core.py:153-157: the list itself
get_messages == mem_messages

\* the fields of a tool call, whatever carries them (object or dict)
CallData(tc) == [id |-> tc.id, name |-> tc.name, arguments |-> tc.arguments]
CallsData(opt) ==
    IF opt = Absent THEN Absent
    ELSE Some([k \in 1..Len(opt[1]) |-> CallData(opt[1][k])])

\* what msg.get(key) reads from a stored message against what was passed
SameMessage(read, m) ==
    /\ read.role = m.role
    /\ read.content = m.content
    /\ CallsData(read.tool_calls) = CallsData(m.tool_calls)
    /\ read.tool_call_id = m.tool_call_id

\* C13: once a mark_finished call has returned, and whatever add_message and
\* mark_finished calls follow, is_finished() is true and get_final_content()
\* is the argument of the most recent mark_finished call.
C13_MarkFinishedLastWins ==
    mem_marked.returned =>
        /\ mem_finished
        /\ mem_final_content = mem_marked.content

\* C13 witness: two mark_finished calls with different texts, then an
\* add_message, on the durable memory
C13_Witness ==
    /\ mem_class = "MongoAgentMemory"
    /\ mem_marked.calls = 2
    /\ mem_marked.returned
    /\ mem_marked.content = "b"
    /\ db[mem_memory_id].final_content = "b"
    /\ mem_last = [op |-> "add_message", ok |-> TRUE, failures |-> 0]
    /\ mem_call = NoCall

\* C14 (as claimed): every message read back with get_messages has the role,
\* content, tool_calls and tool_call_id that add_message was called with, in
\* each memory class.
C14_RoundTrip ==
    /\ Len(get_messages) = Len(mem_appended)
    /\ \A k \in 1..Len(mem_appended) : SameMessage(get_messages[k], mem_appended[k])

\* C15 (as claimed): a tool-role message without tool_call_id is refused, so
\* the log never holds one.
C15_ToolMessageHasCallId ==
    \A k \in 1..Len(mem_messages) :
        mem_messages[k].role = "tool" => mem_messages[k].tool_call_id # Absent

\* C16: in MongoAgentMemory, while the update of a call is awaited the cache
\* (or the flags) already hold the change, and when the call has returned
\* the document holds the message as the last of its messages (or the
\* finished flag and the final text).
C16_DurableBeforeReturn ==
    mem_class = "MongoAgentMemory" =>
        /\ ( mem_call.at = "update" /\ mem_call.op = "add_message" ) =>
              /\ mem_messages # <<>>
              /\ mem_messages[Len(mem_messages)] = StoredMongo(mem_call.msg)
        /\ ( mem_call.at = "update" /\ mem_call.op = "mark_finished" ) =>
              /\ mem_finished
              /\ mem_final_content = mem_call.content
        /\ ( mem_call = NoCall /\ mem_last.ok /\ mem_last.op = "add_message" ) =>
              LET doc == db[mem_memory_id]
              IN  /\ doc.messages # <<>>
                  /\ doc.messages[Len(doc.messages)]
                        = StoredMongo(mem_appended[Len(mem_appended)])
        /\ ( mem_call = NoCall /\ mem_last.ok /\ mem_last.op = "mark_finished" ) =>
              LET doc == db[mem_memory_id]
              IN  /\ doc.finished
                  /\ doc.final_content = mem_marked.content

\* C16 witness: a second, different message has been appended and the call
\* has returned
C16_Witness ==
    /\ mem_class = "MongoAgentMemory"
    /\ mem_call = NoCall
    /\ mem_last = [op |-> "add_message", ok |-> TRUE, failures |-> 0]
    /\ Len(db[mem_memory_id].messages) = 2
    /\ db[mem_memory_id].messages[1] # db[mem_memory_id].messages[2]
    /\ db[mem_memory_id].finished

\* C17 (as claimed): when no write has failed, a second MongoAgentMemory
\* that loaded the document by its identifier has the state of the first:
\* messages, finished flag, final text, file_path, file_type and s3_url.
C17_ResumedSameState ==
    ( resumed.loaded /\ mem_last.failures = 0 ) =>
        /\ resumed.messages = mem_messages
        /\ resumed.finished = mem_finished
        /\ resumed.final_content = mem_final_content
        /\ resumed.file_path = FilePath
        /\ resumed.file_type = FileType
        /\ resumed.s3_url = mem_s3_url

---------------------------------------------------------------------------
(* The event stream and its mirror: SSEUtils and CacheSSEUtils
   (sse_utils.py:168-288) under the two generators that use them,
   AuditAgent.execute (core.py:321-502, mirror store MongoAgentMemory) and
   stream_factory (main.py:107-137, mirror store MongoSSECache). *)

\* most events a generator yields before it ends or raises
MaxEvents == 3

\* the events a generator formats: sse.log(...) and sse.token(...)
EventArgs == { Ev("log", <<"m">>), Ev("token", <<"t">>) }

\* core.py:498 and main.py:134: the event of the except branch
HostErrorEvent == Ev("error", <<"fatal error">>)

RECURSIVE ConcatAll(_)
ConcatAll(parts) ==
    IF parts = <<>> THEN "" ELSE parts[1] \o ConcatAll(Tail(parts))

\* sse_utils.py:168-180, SSEUtils.format_event
format_event(ev) ==
    "data: {\"type\": \"" \o ev.type \o "\", \"content\": \""
        \o ConcatAll(ev.content) \o "\"}\n\n"

\* the JSON text alone, without the SSE framing
CacheFormatEventBare(ev) ==
    "{\"type\": \"" \o ev.type \o "\", \"content\": \""
        \o ConcatAll(ev.content) \o "\"}"

\* sse_utils.py:251-256, the string CacheSSEUtils.format_event returns
CacheFormatEvent(ev) == format_event(ev)

\* sse_utils.py:234-242: the task _cache_async creates, not yet started
NewTask(ev) == [ev |-> ev, at |-> "created", target |-> 0]

\* sse_cache.py:53 and core.py:143-145: the entry pushed to client_history
HistoryEntry(ev) == [type |-> ev.type, content |-> ev.content]

notMirVars == << coreVars, memFault, current_messages, memVars, fcVars, wrVars >>

\* a yield of sse.log / sse.token / sse.format_event (core.py:327-493,
\* main.py:123-127)
YieldEvent ==
    /\ s_pc = "running"
    /\ Len(requested) < MaxEvents
    /\ \E ev \in EventArgs :
         /\ requested' = Append(requested, ev)
         /\ stream' = Append(stream,
                IF enable_cache THEN CacheFormatEvent(ev) ELSE format_event(ev))
         /\ mtasks' = IF enable_cache THEN Append(mtasks, NewTask(ev)) ELSE mtasks
    /\ UNCHANGED << host, enable_cache, s_pc, sse_memory_id, sse_docs >>
    /\ UNCHANGED notMirVars

\* the except branch: execute() yields sse.error(...) (core.py:498),
\* stream_factory yields SSEUtils.error(...) (main.py:134), which is the
\* plain class whatever enable_cache is
HostRaises ==
    /\ s_pc = "running"
    /\ requested' = Append(requested, HostErrorEvent)
    /\ stream' = Append(stream,
           IF enable_cache /\ host = "execute"
           THEN CacheFormatEvent(HostErrorEvent)
           ELSE format_event(HostErrorEvent))
    /\ mtasks' = IF enable_cache /\ host = "execute"
                 THEN Append(mtasks, NewTask(HostErrorEvent))
                 ELSE mtasks
    /\ s_pc' = "ended"
    /\ UNCHANGED << host, enable_cache, sse_memory_id, sse_docs >>
    /\ UNCHANGED notMirVars

\* the generator is exhausted
HostEnds ==
    /\ s_pc = "running"
    /\ s_pc' = "ended"
    /\ UNCHANGED << host, enable_cache, requested, stream, mtasks,
                    sse_memory_id, sse_docs >>
    /\ UNCHANGED notMirVars

\* the event loop starts the oldest task not yet started: add_client_history
\* runs to its first await, the insert of the lazy initialisation
\* (sse_cache.py:21-43, core.py:75-90) when _memory_id is None, the update
\* otherwise (sse_cache.py:49, core.py:148)
TaskStart ==
    \E i \in 1..Len(mtasks) :
        /\ mtasks[i].at = "created"
        /\ \A j \in 1..(i - 1) : mtasks[j].at # "created"
        /\ mtasks' = [mtasks EXCEPT ![i] =
               IF sse_memory_id = 0
               THEN [@ EXCEPT !.at = "insert"]
               ELSE [@ EXCEPT !.at = "update", !.target = sse_memory_id]]
        /\ UNCHANGED << host, enable_cache, s_pc, requested, stream,
                        sse_memory_id, sse_docs >>
        /\ UNCHANGED notMirVars

\* sse_cache.py:43 returns: a document is inserted, _memory_id is set, and
\* the task goes on to its update of that document
TaskInsertDone ==
    \E i \in 1..Len(mtasks) :
        /\ mtasks[i].at = "insert"
        /\ sse_docs' = Append(sse_docs, HistoryDoc)
        /\ sse_memory_id' = Len(sse_docs) + 1
        /\ mtasks' = [mtasks EXCEPT ![i] =
               [@ EXCEPT !.at = "update", !.target = Len(sse_docs) + 1]]
        /\ UNCHANGED << host, enable_cache, s_pc, requested, stream >>
        /\ UNCHANGED notMirVars

\* sse_cache.py:49-56, core.py:148-152 returns: the entry is pushed
TaskUpdateDone ==
    \E i \in 1..Len(mtasks) :
        /\ mtasks[i].at = "update"
        /\ sse_docs' = [sse_docs EXCEPT ![mtasks[i].target].client_history =
                           Append(@, HistoryEntry(mtasks[i].ev))]
        /\ mtasks' = [mtasks EXCEPT ![i] = [@ EXCEPT !.at = "done"]]
        /\ UNCHANGED << host, enable_cache, s_pc, requested, stream,
                        sse_memory_id >>
        /\ UNCHANGED notMirVars

\* the insert or the update raises: _do_cache catches it (sse_utils.py:237-239)
TaskFails ==
    \E i \in 1..Len(mtasks) :
        /\ mtasks[i].at \in {"insert", "update"}
        /\ mtasks' = [mtasks EXCEPT ![i] = [@ EXCEPT !.at = "failed"]]
        /\ UNCHANGED << host, enable_cache, s_pc, requested, stream,
                        sse_memory_id, sse_docs >>
        /\ UNCHANGED notMirVars

\* execute() or stream_factory, with or without mirroring, before the first
\* yield; the variables of the other components stay as constructed
InitMirror ==
    /\ pc = "start"
    /\ step_count = 0
    /\ finished = FALSE
    /\ final_content = <<>>
    /\ messages = <<>>
    /\ events = <<>>
    /\ tool_calls = <<>>
    /\ idx = 0
    /\ tasks = <<>>
    /\ tool_call_meta = <<>>
    /\ results = <<>>
    /\ completed = <<>>
    /\ result_iter = 0
    /\ modelCalls = 0
    /\ invoked = {}
    /\ variedLeft = 0
    /\ varied = FALSE
    /\ memFault = "none"
    /\ current_messages = <<>>
    /\ MemoryNew("MongoAgentMemory", "")
    /\ \E h \in Hosts : \E cache \in BOOLEAN : MirrorNew(h, cache)
    /\ FrameCacheNew
    /\ WritersNew

NextMirror ==
    \/ YieldEvent
    \/ HostRaises
    \/ HostEnds
    \/ TaskStart
    \/ TaskInsertDone
    \/ TaskUpdateDone
    \/ TaskFails

\* one event stream with the mirror tasks it leaves behind
SpecMirror == InitMirror /\ [][NextMirror]_vars

\* the entries of client_history, over the documents the session wrote to
RECURSIVE HistoryFrom(_)
HistoryFrom(d) ==
    IF d > Len(sse_docs) THEN <<>>
    ELSE sse_docs[d].client_history \o HistoryFrom(d + 1)

Count(x, seq) == Cardinality({ k \in 1..Len(seq) : seq[k] = x })

\* C18: whatever the mirror tasks do (run late, fail, never run), the strings
\* the client received are those SSEUtils.format_event gives for the events
\* the generator yielded, which is the stream of a run without mirroring.
C18_MirrorDoesNotChangeStream ==
    stream = [k \in 1..Len(requested) |-> format_event(requested[k])]

\* C18 witness: a mirrored stream has ended with one mirror task failed and
\* another not yet started
C18_Witness ==
    /\ enable_cache
    /\ s_pc = "ended"
    /\ Len(stream) = MaxEvents + 1
    /\ \E i \in 1..Len(mtasks) : mtasks[i].at = "failed"
    /\ \E i \in 1..Len(mtasks) : mtasks[i].at = "created"

\* C19 (as claimed): with mirroring on, once the stream has ended and every
\* mirror task has finished without a failure, each event the client
\* received, the terminal error included, is in client_history as many
\* times as it was delivered.
C19_DeliveredMirroredOnce ==
    ( /\ enable_cache
      /\ s_pc = "ended"
      /\ \A i \in 1..Len(mtasks) : mtasks[i].at = "done" )
    => \A k \in 1..Len(requested) :
          Count(HistoryEntry(requested[k]), HistoryFrom(1))
              = Count(requested[k], requested)

---------------------------------------------------------------------------
(* The frame cache: concurrent _get_or_prepare_frames calls on one
   file_path (langchain_tools.py:39-78, 145-207).  The calls run on one
   event loop, so the code between two awaits is one step.  The state passed
   to each call holds no frames, and the files of cached frames exist. *)

Frames == 1..FramesPerList

\* langchain_tools.py:177, 193: [f for f in cached if not f.get("minio_url")]
missing_upload(l) == { f \in Frames : fc_frames[l][f] # "url" }

\* the lock is taken without looking at the cache again
RecheckSkipped == NoList

\* langchain_tools.py:185: cached_global = _FRAME_CACHE.get(file_path)
RecheckCache == fc_cache

notFcVars == << coreVars, memFault, current_messages, memVars, mirVars, wrVars >>

\* langchain_tools.py:184-207 up to the first await that suspends, run by
\* caller c that has just taken the lock; waiters is the queue left behind
LockedSection(c, waiters) ==
    LET cached_global == RecheckCache
    IN  IF cached_global # NoList
        THEN \* langchain_tools.py:186-197
             /\ fc_ret' = [fc_ret EXCEPT ![c] = cached_global]
             /\ fc_how' = [fc_how EXCEPT ![c] = "recheck"]
             /\ UNCHANGED << fc_cache, fc_extractions, fc_frames >>
             /\ IF missing_upload(cached_global) # {}
                THEN /\ fc_uploads' = fc_uploads \cup
                            { <<c, cached_global, f>> : f \in missing_upload(cached_global) }
                     /\ fc_pc' = [fc_pc EXCEPT ![c] = "upload_recheck"]
                     /\ fc_lock' = [holder |-> c, waiters |-> waiters]
                ELSE /\ fc_pc' = [fc_pc EXCEPT ![c] = "returned"]
                     /\ fc_lock' = [holder |-> 0, waiters |-> waiters]
                     /\ UNCHANGED fc_uploads
        ELSE \* langchain_tools.py:199-205
             /\ fc_extractions' = fc_extractions + 1
             /\ fc_frames' = Append(fc_frames, [f \in Frames |-> "none"])
             /\ fc_ret' = [fc_ret EXCEPT ![c] = Len(fc_frames) + 1]
             /\ fc_how' = [fc_how EXCEPT ![c] = "extract"]
             /\ fc_uploads' = fc_uploads \cup
                    { <<c, Len(fc_frames) + 1, f>> : f \in Frames }
             /\ fc_pc' = [fc_pc EXCEPT ![c] = "upload_locked"]
             /\ fc_lock' = [holder |-> c, waiters |-> waiters]
             /\ UNCHANGED fc_cache

\* langchain_tools.py:145-184: a call from its start to its first await
Call ==
    \E c \in Callers :
        /\ fc_pc[c] = "idle"
        /\ IF fc_cache # NoList
           THEN \* langchain_tools.py:169-181
                /\ fc_ret' = [fc_ret EXCEPT ![c] = fc_cache]
                /\ fc_how' = [fc_how EXCEPT ![c] = "fast"]
                /\ UNCHANGED << fc_cache, fc_lock, fc_extractions, fc_frames >>
                /\ IF missing_upload(fc_cache) # {}
                   THEN /\ fc_uploads' = fc_uploads \cup
                               { <<c, fc_cache, f>> : f \in missing_upload(fc_cache) }
                        /\ fc_pc' = [fc_pc EXCEPT ![c] = "upload_fast"]
                   ELSE /\ fc_pc' = [fc_pc EXCEPT ![c] = "returned"]
                        /\ UNCHANGED fc_uploads
           ELSE IF fc_lock.holder = 0 /\ fc_lock.waiters = <<>>
           THEN \* langchain_tools.py:183-184, the lock is free
                LockedSection(c, <<>>)
           ELSE \* langchain_tools.py:184, the call waits for the lock
                /\ fc_lock' = [fc_lock EXCEPT !.waiters = Append(@, c)]
                /\ fc_pc' = [fc_pc EXCEPT ![c] = "lock_wait"]
                /\ UNCHANGED << fc_cache, fc_ret, fc_how, fc_extractions,
                                fc_frames, fc_uploads >>
        /\ UNCHANGED notFcVars

\* the lock is released to the first waiter, which runs the locked section
LockAcquired ==
    /\ fc_lock.holder = 0
    /\ fc_lock.waiters # <<>>
    /\ LockedSection(Head(fc_lock.waiters), Tail(fc_lock.waiters))
    /\ UNCHANGED notFcVars

\* langchain_tools.py:69-73: an upload returns its url or raises
UploadDone ==
    \E u \in fc_uploads : \E outcome \in {"url", "failed"} :
        /\ fc_frames' = [fc_frames EXCEPT ![u[2]][u[3]] = outcome]
        /\ fc_uploads' = fc_uploads \ {u}
        /\ UNCHANGED << fc_cache, fc_lock, fc_pc, fc_ret, fc_how, fc_extractions >>
        /\ UNCHANGED notFcVars

\* langchain_tools.py:78 returns: the call goes on to its return, storing
\* the list (langchain_tools.py:206) and leaving the lock where it held it
Resume ==
    \E c \in Callers :
        /\ fc_pc[c] \in {"upload_fast", "upload_recheck", "upload_locked"}
        /\ \A u \in fc_uploads : u[1] # c
        /\ fc_pc' = [fc_pc EXCEPT ![c] = "returned"]
        /\ fc_cache' = IF fc_pc[c] = "upload_locked" THEN fc_ret[c] ELSE fc_cache
        /\ fc_lock' = IF fc_pc[c] = "upload_fast" THEN fc_lock
                      ELSE [fc_lock EXCEPT !.holder = 0]
        /\ UNCHANGED << fc_ret, fc_how, fc_extractions, fc_frames, fc_uploads >>
        /\ UNCHANGED notFcVars

\* an empty cache and MaxCallers calls about to be made
InitFrames ==
    /\ pc = "start"
    /\ step_count = 0
    /\ finished = FALSE
    /\ final_content = <<>>
    /\ messages = <<>>
    /\ events = <<>>
    /\ tool_calls = <<>>
    /\ idx = 0
    /\ tasks = <<>>
    /\ tool_call_meta = <<>>
    /\ results = <<>>
    /\ completed = <<>>
    /\ result_iter = 0
    /\ modelCalls = 0
    /\ invoked = {}
    /\ variedLeft = 0
    /\ varied = FALSE
    /\ memFault = "none"
    /\ current_messages = <<>>
    /\ MemoryNew("MongoAgentMemory", "")
    /\ MirrorNew("execute", FALSE)
    /\ FrameCacheNew
    /\ WritersNew

NextFrames ==
    \/ Call
    \/ LockAcquired
    \/ UploadDone
    \/ Resume

SpecFrames == InitFrames /\ [][NextFrames]_vars

\* C20: from an empty cache, however the calls on one file_path interleave,
\* extract_frames runs at most once, and every call that has returned
\* returned the list of that one extraction, which is the cached list.
C20_ExtractedOnce ==
    /\ fc_extractions <= 1
    /\ \A c \in Callers :
         fc_pc[c] = "returned" =>
            /\ fc_extractions = 1
            /\ fc_cache # NoList
            /\ fc_ret[c] = fc_cache

\* C20 witness: all calls returned; one extracted, one waited for the lock
\* and found the list, one found it without the lock
C20_Witness ==
    /\ \A c \in Callers : fc_pc[c] = "returned"
    /\ \E c \in Callers : fc_how[c] = "extract"
    /\ \E c \in Callers : fc_how[c] = "recheck"
    /\ \E c \in Callers : fc_how[c] = "fast"
    /\ fc_extractions = 1

---------------------------------------------------------------------------
(* C21..C30 *)

\* C21: a tool-role message of the step under observation carries, under the
\* id of call c, the outcome of the invocation created for c itself: the
\* error of its own raise or its own envelope when c was run, the not-found
\* error of its own name when c is not registered, never the outcome of a
\* sibling.
C21_ResultCorrelation ==
    pc = "observe" =>
        \A k \in 1..Len(messages) :
            ( messages[k].role = "tool" /\ PrevAssistant(k) = Len(messages) - (idx - 1) ) =>
                \E j \in 1..Len(tool_call_meta) :
                    LET meta == tool_call_meta[j]
                    IN  /\ meta.tool_call.id = messages[k].tool_call_id
                        /\ IF meta.valid
                           THEN \E s \in 1..Len(valid_coroutines) :
                                    /\ valid_coroutines[s] = meta.tool_call.id
                                    /\ messages[k].content =
                                         << IF results[s].kind = "raise"
                                            THEN JsonError(results[s].msg)
                                            ELSE JsonEnvelope(results[s].env) >>
                           ELSE messages[k].content =
                                    << JsonError("Tool " \o meta.name \o " not found") >>

\* two invocations of one step ended differently, the second one first, and
\* both results are in the log
C21_Witness ==
    /\ pc = "observe"
    /\ idx = 3
    /\ Len(results) = 2
    /\ results[1].kind = "raise"
    /\ results[2].kind = "ok"
    /\ completed = << 2, 1 >>

\* C22 (as claimed): once the dispatch loop of a step is over, run has been
\* invoked for exactly the requested calls of the step whose name is
\* registered and whose argument blob parses into arguments, and for none of
\* the parse-failed or unregistered ones.
C22_InvokedOncePerValidCall ==
    \A a \in AssistantIdx :
        ( NextAssistant(a) <= Len(messages) \/ pc # "dispatch" ) =>
            \A p \in 1..Len(messages[a].tool_calls) :
                LET c == messages[a].tool_calls[p]
                IN  ( c.id \in invoked )
                        <=> ( c.name \in tools_map /\ ParseArgs(c.arguments) = "mapping" )

\* C23: while an invocation dispatched in the step has not completed, the
\* agent is still waiting: the log ends with the assistant message of the
\* step (no tool-role message of the step yet) and the stream ends with an
\* event of the dispatch loop (no event of the result loop yet); the result
\* loop runs only over completed invocations, whether or not one has raised.
C23_Barrier ==
    /\ ( \E k \in 1..Len(results) : results[k] = Pending ) => pc = "acting"
    /\ pc = "acting" =>
          /\ messages[Len(messages)].role = "assistant"
          /\ messages[Len(messages)].tool_calls = tool_calls
          /\ events[Len(events)] \in
                { Ev("log", <<"start tool " \o n>>) : n \in ToolNames }
                    \cup { Ev("error", <<"args parse failed">>) }

\* one invocation has raised while another one of the step is still running
C23_Witness ==
    /\ pc = "acting"
    /\ Len(results) = 2
    /\ results[1].kind = "raise"
    /\ results[2] = Pending

---------------------------------------------------------------------------
(* The result loop at the grain of its suspension points: one iteration
   yields the events of the call to the consumer and then awaits
   memory.add_message (core.py:425-478). pc = "append" is the iteration
   between the two. *)

\* an iteration that stores the message before it yields the events
observe_message_first == << "message", "events" >>

\* core.py:427-478: the yields of an iteration come before its add_message
observe_order == << "events", "message" >>

\* core.py:427-473: the events one iteration yields
ObservedEvents(meta, res) ==
    IF ~meta.valid
    THEN << Ev("error", <<meta.error>>) >>
    ELSE IF res.kind = "raise"
    THEN << Ev("error", <<"tool " \o meta.name \o " raised: " \o res.msg>>) >>
    ELSE EnvelopeEvents(res.env, meta.name)

\* the message filed under the id left in the dispatch loop's variable, the
\* last call requested
ObservedMessageStaleId(meta, res) ==
    Msg("tool",
        << IF ~meta.valid THEN JsonError(meta.error)
           ELSE IF res.kind = "raise" THEN JsonError(res.msg)
           ELSE JsonEnvelope(res.env) >>,
        <<>>, tool_calls[Len(tool_calls)].id)

\* core.py:429-478: the message one iteration appends
ObservedMessage(meta, res) ==
    Msg("tool",
        << IF ~meta.valid THEN JsonError(meta.error)
           ELSE IF res.kind = "raise" THEN JsonError(res.msg)
           ELSE JsonEnvelope(res.env) >>,
        <<>>, meta.tool_call.id)

ObservePhase(kind, meta, res) ==
    IF kind = "events"
    THEN /\ events' = events \o ObservedEvents(meta, res)
         /\ UNCHANGED messages
    ELSE /\ messages' = Append(messages, ObservedMessage(meta, res))
         /\ UNCHANGED events

\* core.py:425-473: the iteration up to its last yield
ObserveFirst ==
    /\ pc = "observe"
    /\ idx <= Len(tool_call_meta)
    /\ ObservePhase(observe_order[1], MetaAt(idx), next_result)
    /\ result_iter' = IF MetaAt(idx).valid THEN result_iter + 1 ELSE result_iter
    /\ pc' = "append"
    /\ UNCHANGED << step_count, finished, final_content, tool_calls, idx, tasks,
                    tool_call_meta, results, completed, modelCalls, invoked,
                    variedLeft, varied >>
    /\ UNCHANGED extVars

\* core.py:474-478: the rest of the iteration
ObserveSecond ==
    /\ pc = "append"
    /\ ObservePhase(observe_order[2], MetaAt(idx), results[result_iter])
    /\ idx' = idx + 1
    /\ pc' = "observe"
    /\ UNCHANGED << step_count, finished, final_content, tool_calls, tasks,
                    tool_call_meta, results, completed, result_iter, modelCalls,
                    invoked, variedLeft, varied >>
    /\ UNCHANGED extVars

NextObserve ==
    \/ Prime
    \/ LoopEnter
    \/ LoopExit
    \/ ModelReplyDefault
    \/ ModelReplyVaried
    \/ ModelReplyFinal
    \/ ModelRaise
    \/ Dispatch
    \/ Gather
    \/ Complete
    \/ GatherDone
    \/ ObserveFirst
    \/ ObserveSecond
    \/ ObserveEnd
    \/ AfterLoop

\* one run of execute() seen at every yield and await of the result loop
SpecObserve == Init /\ [][NextObserve]_vars

\* the events the result loop owes for the first n calls of the step
RECURSIVE EventsOfCalls(_)
EventsOfCalls(n) ==
    IF n = 0 THEN <<>>
    ELSE EventsOfCalls(n - 1)
            \o ObservedEvents(tool_call_meta[n], results[SlotOf(n)])

\* the tool-role messages appended since the assistant message of the step
StepMessages ==
    SelectSeq(messages, LAMBDA m : m.role = "tool" /\ m.tool_call_id \in
                  { tool_call_meta[j].tool_call.id : j \in 1..Len(tool_call_meta) })

\* C24: at every point of the result loop the calls are handled in request
\* order and one at a time: the step has appended the tool messages of
\* calls 1..idx-1 in that order and nothing of a later call, and the stream
\* ends with the events of exactly those calls, in that order, plus, between
\* the two halves of iteration idx, the events of call idx, whose message is
\* still to come.
C24_EventsBeforeMessagePerCall ==
    pc \in {"observe", "append"} =>
        LET n == IF pc = "append" THEN idx ELSE idx - 1
            owed == EventsOfCalls(n)
            before == Len(events) - Len(owed)
        IN  /\ Len(StepMessages) = idx - 1
            /\ \A j \in 1..(idx - 1) :
                   /\ StepMessages[j].tool_call_id = tool_call_meta[j].tool_call.id
                   /\ messages[Len(messages) - (idx - 1) + j] = StepMessages[j]
            /\ messages[Len(messages) - (idx - 1)].role = "assistant"
            /\ before >= 1
            /\ SubSeq(events, before + 1, Len(events)) = owed
            /\ events[before] \in
                  { Ev("log", <<"start tool " \o nm>>) : nm \in ToolNames }
                      \cup { Ev("error", <<"args parse failed">>) }

\* between the two halves of the second iteration: the audio events of call
\* 2 are on the stream, its message is not in the log yet
C24_Witness ==
    /\ pc = "append"
    /\ idx = 2
    /\ Len(tool_call_meta) = 2
    /\ tool_call_meta[2].valid
    /\ results[result_iter].env = AudioEnvelope
    /\ results[result_iter].kind = "ok"
    /\ events[Len(events)].type = "log"
    /\ events[Len(events) - 1].type = "audio_text_chunk"
    /\ messages[Len(messages)].role = "tool"
    /\ messages[Len(messages) - 1].role = "assistant"

---------------------------------------------------------------------------
(* C25..C30 *)

\* C25: once the reply without tool calls is in the log and mark_finished has
\* been called, the session stays finished and no step appends a message,
\* calls the model or invokes a tool.
C25_NothingAfterFinish ==
    [][ finished => /\ finished'
                    /\ messages' = messages
                    /\ modelCalls' = modelCalls
                    /\ invoked' = invoked ]_vars

\* a session that finished with an empty final answer after a tool step, at
\* its end
C25_Witness ==
    /\ pc = "done"
    /\ finished
    /\ final_content = <<>>
    /\ step_count = 2
    /\ invoked # {}
    /\ messages[Len(messages)].role = "assistant"
    /\ messages[Len(messages)].tool_calls = <<>>

\* the envelope without the reserved fields the frontend layer turned into
\* events: the image list, the revealed text, the violation object whose
\* flag is set
ConvertedRemoved(env) ==
    [env EXCEPT !.preview_images = FALSE,
                !.corrected_text = <<>>,
                !.violation_check = IF @ # <<>> /\ @[1].is_violation = <<TRUE>>
                                    THEN <<>> ELSE @]

\* C26 (as claimed): the content stored for a call that returned is its
\* envelope with every reserved field that was turned into events removed
\* and every other key unchanged; no stored content carries preview_images.
C26_StoredEnvelopeStripped ==
    pc = "observe" =>
        \A j \in 1..(idx - 1) :
            ( tool_call_meta[j].valid /\ results[SlotOf(j)].kind = "ok" ) =>
                LET stored == messages[Len(messages) - (idx - 1) + j].content
                    env == results[SlotOf(j)].env
                IN  /\ stored = << json_dumps(ConvertedRemoved(env)) >>
                    /\ stored # << json_dumps([env EXCEPT !.preview_images = TRUE]) >>

\* the start event at position i is closed: a later end event follows it with
\* only events of the type part between the two
Paired(i, part, end) ==
    \E j \in (i + 1)..Len(events) :
        /\ events[j].type = end
        /\ \A k \in (i + 1)..(j - 1) : events[k].type = part

\* C27 (as claimed): in the stream of a session that is over, every
\* audio_text_start is followed by an audio_text_end with only
\* audio_text_chunk events between, and every final_report_start by a
\* final_report_end with only token events between.
C27_StreamsPaired ==
    pc = "done" =>
        \A i \in 1..Len(events) :
            /\ events[i].type = "audio_text_start"
                  => Paired(i, "audio_text_chunk", "audio_text_end")
            /\ events[i].type = "final_report_start"
                  => Paired(i, "token", "final_report_end")

\* C28: the list handed to the model in a thinking phase is the whole log as
\* it stands, every message appended so far in append order, and it starts
\* with the system and the user priming message; no model call was made
\* with less.
C28_FullLogSubmitted ==
    /\ pc = "model" => current_messages = messages
    /\ ( pc = "model" \/ modelCalls > 0 ) =>
          /\ Len(current_messages) >= 2
          /\ current_messages[1].role = "system"
          /\ current_messages[2].role = "user"
          /\ \A k \in 3..Len(current_messages) :
                current_messages[k].role \in {"assistant", "tool"}
          /\ current_messages = SubSeq(messages, 1, Len(current_messages))

\* the second thinking phase, after a step with one tool call
C28_Witness ==
    /\ pc = "model"
    /\ step_count = 2
    /\ Len(current_messages) = 4
    /\ current_messages[3].role = "assistant"
    /\ current_messages[4].role = "tool"

\* s is a prefix of t
IsPrefix(s, t) == Len(s) <= Len(t) /\ SubSeq(t, 1, Len(s)) = s

\* C29: every step of add_message, mark_finished and get_messages keeps the
\* log as a prefix of the log after it, an add_message that stores its
\* message extends the log by exactly that one message at the end, and no
\* message already in the log, or in the list of the stored document,
\* changes.
C29_AppendOnly ==
    [][ /\ IsPrefix(mem_messages, mem_messages')
        /\ Len(mem_messages') <= Len(mem_messages) + 1
        /\ Len(mem_appended') > Len(mem_appended)
              => /\ Len(mem_messages') = Len(mem_messages) + 1
                 /\ Len(mem_appended') = Len(mem_appended) + 1
        /\ Len(mem_messages') > Len(mem_messages)
              => Len(mem_appended') = Len(mem_appended) + 1
        /\ \A d \in 1..Len(db) :
              /\ d <= Len(db')
              /\ IsPrefix(db[d].messages, db'[d].messages) ]_vars

\* two messages are in the log of a MongoAgentMemory and one of the two
\* updates failed: the log holds more than the stored list
C29_Witness ==
    /\ mem_class = "MongoAgentMemory"
    /\ mem_call = NoCall
    /\ Len(mem_messages) = 2
    /\ mem_memory_id # 0
    /\ Len(db[mem_memory_id].messages) = 1
    /\ mem_last.failures = 1

\* the tool_calls entries of assistant messages before message k that carry
\* the id, as <<message, position>>
CallsBefore(k, id) ==
    { ap \in (1..(k - 1)) \X (1..MaxCalls) :
        /\ messages[ap[1]].role = "assistant"
        /\ ap[2] <= Len(messages[ap[1]].tool_calls)
        /\ messages[ap[1]].tool_calls[ap[2]].id = id }

\* C30: the tool_call_id of every tool-role message is the id of exactly one
\* tool_calls entry of an assistant message before it, and no id is answered
\* by two tool-role messages.
C30_ToolMessagesAnswerOneCall ==
    \A k \in 1..Len(messages) :
        messages[k].role = "tool" =>
            /\ Cardinality(CallsBefore(k, messages[k].tool_call_id)) = 1
            /\ \A l \in 1..Len(messages) :
                  ( messages[l].role = "tool"
                    /\ messages[l].tool_call_id = messages[k].tool_call_id ) => l = k

\* the second step has answered its two calls, after a first step with one
C30_Witness ==
    /\ pc = "observe"
    /\ step_count = 2
    /\ Len(tool_call_meta) = 2
    /\ idx = 3
    /\ Cardinality({ k \in 1..Len(messages) : messages[k].role = "tool" }) = 3

---------------------------------------------------------------------------
(* C31..C40 *)

\* one run of execute() whose consumer keeps iterating the generator and
\* whose model calls and tool invocations all return or raise: every step
\* that can be taken is taken in the end
SpecLive == Spec /\ WF_vars(Next)

\* C31: every session ends: execute() reaches the end of the generator,
\* after the final answer, the fatal error or the step budget, stays there
\* and emits no event from then on.
C31_Terminates ==
    /\ <>[](pc = "done")
    /\ [][ pc = "done" => events' = events ]_vars

\* a session that ended on the fatal error of a model call in its second step
C31_Witness ==
    /\ pc = "done"
    /\ ~finished
    /\ step_count = 2
    /\ ModelRaised
    /\ events[Len(events)] = FatalEvent

\* s can be read off t from left to right, skipping entries of t
RECURSIVE IsSubseq(_, _)
IsSubseq(s, t) ==
    IF s = <<>> THEN TRUE
    ELSE IF t = <<>> THEN FALSE
    ELSE IF s[1] = t[1]
         THEN IsSubseq(Tail(s), Tail(t)) \/ IsSubseq(s, Tail(t))
         ELSE IsSubseq(s, Tail(t))

\* C32 (as claimed): the client_history of a document of the session lists
\* the mirrored events in the order in which they were emitted to the
\* client, whatever the order in which the mirror tasks ran.
C32_HistoryInEmissionOrder ==
    \A d \in 1..Len(sse_docs) :
        IsSubseq(sse_docs[d].client_history,
                 [k \in 1..Len(requested) |-> HistoryEntry(requested[k])])

\* C33 (as claimed): a session has at most one document: the lazy
\* initialisation inserts one, and every mirror task pushes its event into
\* that same document.
C33_SingleDocument ==
    /\ Len(sse_docs) <= 1
    /\ \A i, j \in 1..Len(mtasks) :
          ( mtasks[i].target # 0 /\ mtasks[j].target # 0 )
              => mtasks[i].target = mtasks[j].target

---------------------------------------------------------------------------
(* Two MongoAgentMemory objects bound to one document: the object of the
   original loop and one that loaded the document (core.py:203-218).  Each
   caller awaits its add_message before the next one; the two objects run
   in different tasks or processes, so their steps interleave freely. *)

MaxWrites == 2

\* the n-th message object w appends
WriterMessage(w, n) ==
    [role |-> "assistant", content |-> "w" \o ToString(w) \o "-" \o ToString(n)]

\* the update writing the object's whole list over the stored one
set_messages_from_cache(doc, w, msg) == w_cache[w]

\* core.py:129-133: update_one with {"$push": {"messages": msg}}, applied by
\* the store to the list as it stands
push_message(doc, w, msg) == Append(doc, msg)

\* core.py:155-156: get_messages returns self._messages, the list object the
\* later appends go to
returns_cache_itself == TRUE

\* what a caller reads in the list get_messages gave it
snapshot_view(w) ==
    IF w_snap[w][1].shared THEN w_cache[w] ELSE w_snap[w][1].taken

notWrVars == << coreVars, memFault, current_messages, memVars, mirVars, fcVars >>

\* core.py:92-127: add_message up to its await; _memory_id is set, so
\* _initialize_memory returns at once
WriterAdd(w) ==
    /\ w_call[w] = <<>>
    /\ Len(w_cache[w]) - 1 < MaxWrites
    /\ LET msg == WriterMessage(w, Len(w_cache[w]))
       IN  /\ w_cache' = [w_cache EXCEPT ![w] = Append(@, msg)]
           /\ w_call' = [w_call EXCEPT ![w] = << msg >>]
    /\ UNCHANGED << w_doc, w_sent, w_snap >>
    /\ UNCHANGED notWrVars

\* core.py:129-133 returns
WriterUpdateDone(w) ==
    /\ w_call[w] # <<>>
    /\ w_doc' = push_message(w_doc, w, w_call[w][1])
    /\ w_sent' = [w_sent EXCEPT ![w] = Append(@, w_call[w][1])]
    /\ w_call' = [w_call EXCEPT ![w] = <<>>]
    /\ UNCHANGED << w_cache, w_snap >>
    /\ UNCHANGED notWrVars

\* core.py:129-133 raises: add_message raises, the document is unchanged
WriterUpdateFails(w) ==
    /\ w_call[w] # <<>>
    /\ w_call' = [w_call EXCEPT ![w] = <<>>]
    /\ UNCHANGED << w_doc, w_cache, w_sent, w_snap >>
    /\ UNCHANGED notWrVars

\* core.py:153-156: get_messages on a cache that holds a message
WriterGet(w) ==
    /\ w_call[w] = <<>>
    /\ w_snap' = [w_snap EXCEPT ![w] =
           << [taken |-> w_cache[w], shared |-> returns_cache_itself] >>]
    /\ UNCHANGED << w_doc, w_cache, w_call, w_sent >>
    /\ UNCHANGED notWrVars

\* the state before either object is used; the variables of the other
\* components stay as constructed
InitWriters ==
    /\ pc = "start"
    /\ step_count = 0
    /\ finished = FALSE
    /\ final_content = <<>>
    /\ messages = <<>>
    /\ events = <<>>
    /\ tool_calls = <<>>
    /\ idx = 0
    /\ tasks = <<>>
    /\ tool_call_meta = <<>>
    /\ results = <<>>
    /\ completed = <<>>
    /\ result_iter = 0
    /\ modelCalls = 0
    /\ invoked = {}
    /\ variedLeft = 0
    /\ varied = FALSE
    /\ memFault = "none"
    /\ current_messages = <<>>
    /\ MemoryNew("MongoAgentMemory", "")
    /\ MirrorNew("execute", FALSE)
    /\ FrameCacheNew
    /\ WritersNew

NextWriters ==
    \E w \in Writers :
        \/ WriterAdd(w)
        \/ WriterUpdateDone(w)
        \/ WriterUpdateFails(w)
        \/ WriterGet(w)

SpecWriters == InitWriters /\ [][NextWriters]_vars

\* the messages of object w in the stored list, in its order
StoredOf(w) ==
    SelectSeq(w_doc, LAMBDA m : \E n \in 1..MaxWrites : m = WriterMessage(w, n))

\* C34: however the add_message calls of the two objects interleave, the
\* stored list holds, after the message both started from, every message
\* whose add_message returned exactly once, those of each object in the
\* order it appended them, and nothing else.
C34_TwoWritersAllKept ==
    /\ w_doc[1] = PriorMessage
    /\ Len(w_doc) = 1 + Len(w_sent[1]) + Len(w_sent[2])
    /\ \A w \in Writers : StoredOf(w) = w_sent[w]

\* each object has appended two messages and the stored list alternates
\* between them, the second object first
C34_Witness ==
    /\ Len(w_doc) = 5
    /\ w_doc[2] = WriterMessage(2, 1)
    /\ w_doc[3] = WriterMessage(1, 1)
    /\ w_doc[4] = WriterMessage(2, 2)
    /\ w_doc[5] = WriterMessage(1, 2)

\* C35 (as claimed): between two calls of a MongoAgentMemory that has its
\* document, the in-memory log and the stored list are equal, whether the
\* add_message calls before returned or raised.
C35_CacheEqualsStore ==
    ( /\ mem_class = "MongoAgentMemory"
      /\ mem_call = NoCall
      /\ mem_memory_id # 0 )
    => mem_messages = db[mem_memory_id].messages

\* C36 (as claimed): the list get_messages returned reads the same, in length
\* and contents, whatever is appended to the memory afterwards.
C36_StableSnapshot ==
    \A w \in Writers :
        w_snap[w] # <<>> => snapshot_view(w) = w_snap[w][1].taken


---------------------------------------------------------------------------
(* The consumer of execute() goes away while the generator is suspended *)

\* the outcome of an invocation asyncio cancelled before it returned or raised
Cancelled == [kind |-> "cancelled", env |-> PlainEnvelope, msg |-> ""]

\* asyncio.gather when its awaiter is cancelled: every child that is still
\* running is cancelled with it (core.py:419 has no asyncio.shield)
cancel_children(res) ==
    [k \in 1..Len(res) |-> IF res[k] = Pending THEN Cancelled ELSE res[k]]

\* The task iterating execute() is cancelled (client disconnect).  The
\* generator is suspended at a yield or at an await; CancelledError and
\* GeneratorExit are BaseExceptions, so the handler of core.py:495 (except
\* Exception) is passed over and there is no finally: nothing more of
\* execute() runs.  Suspended at the gather of core.py:419, the invocations
\* that have not finished are cancelled.
Cancel ==
    /\ pc \notin {"done", "cancelled"}
    /\ pc' = "cancelled"
    /\ results' = IF pc = "acting" THEN cancel_children(results) ELSE results
    /\ UNCHANGED << step_count, finished, final_content, messages, events,
                    tool_calls, idx, tasks, tool_call_meta, completed,
                    result_iter, modelCalls, invoked, variedLeft, varied >>
    /\ UNCHANGED extVars

NextCancel ==
    \/ Next
    \/ Cancel

SpecCancel == Init /\ [][NextCancel]_vars

\* C37 (as claimed): when the stream is cancelled while invocations of a step
\* are in flight, each of them still ends with a tool-role message of its
\* call id in memory.
C37_InFlightCallsPersisted ==
    pc = "cancelled" =>
        \A k \in 1..Len(results) :
            results[k] \notin Outcomes =>
                \E m \in 1..Len(messages) :
                    /\ messages[m].role = "tool"
                    /\ messages[m].tool_call_id = valid_coroutines[k]


---------------------------------------------------------------------------
(* C38, C40: the frame cache under calls of several sessions *)

\* C38 (as claimed): a call on file_path made by one session, its state
\* holding no frames, ends as it would with no other session about: it
\* extracts the frames itself and returns the list of its own extraction.
C38_SessionsIndependent ==
    \A c \in Callers :
        fc_pc[c] = "returned" => fc_how[c] = "extract"

\* C40 (as claimed): no frame of a list has two uploads in flight together.
C40_OneUploadPerFrame ==
    \A u \in fc_uploads : \A v \in fc_uploads :
        ( u[2] = v[2] /\ u[3] = v[3] ) => u = v


---------------------------------------------------------------------------
(* C39: the frontend layer over every shape of the violation_check object *)

\* audio_tools.py:93-94, 114: no violation found
CleanEnvelope ==
    [PlainEnvelope EXCEPT !.violation_check = ViolationCheck(<<FALSE>>, << <<>> >>)]

\* a violation whose object has an empty segment list, no segments key, or
\* no is_violation key
EmptyAnchorsEnvelope ==
    [PlainEnvelope EXCEPT !.violation_check = ViolationCheck(<<TRUE>>, << <<>> >>)]
NoSegmentsEnvelope ==
    [PlainEnvelope EXCEPT !.violation_check = ViolationCheck(<<TRUE>>, <<>>)]
NoFlagEnvelope ==
    [PlainEnvelope EXCEPT !.violation_check = ViolationCheck(<<>>, << <<>> >>)]

AdapterEnvelopes ==
    {PlainEnvelope, CleanEnvelope, ViolationEnvelope, EmptyAnchorsEnvelope,
     NoSegmentsEnvelope, NoFlagEnvelope}

AdapterOutcomes == {Returned(e) : e \in AdapterEnvelopes} \cup {Raised("boom")}

\* one tool.run returns one of these envelopes or raises
CompleteAdapter ==
    /\ pc = "acting"
    /\ \E k \in 1..Len(results) :
         /\ results[k] = Pending
         /\ \E o \in (IF varied THEN AdapterOutcomes ELSE {Returned(PlainEnvelope)}) :
              results' = [results EXCEPT ![k] = o]
         /\ completed' = Append(completed, k)
    /\ UNCHANGED << pc, step_count, finished, final_content, messages, events,
                    tool_calls, idx, tasks, tool_call_meta, result_iter,
                    modelCalls, invoked, variedLeft, varied >>
    /\ UNCHANGED extVars

NextAdapter ==
    \/ Prime
    \/ LoopEnter
    \/ LoopExit
    \/ ModelReplyDefault
    \/ ModelReplyVaried
    \/ ModelReplyFinal
    \/ ModelRaise
    \/ Dispatch
    \/ Gather
    \/ CompleteAdapter
    \/ GatherDone
    \/ Observe
    \/ ObserveEnd
    \/ AfterLoop

SpecAdapter == Init /\ [][NextAdapter]_vars

\* the events a step of the result loop added
AddedEvents == SubSeq(events', Len(events) + 1, Len(events'))

\* C39: the iteration of the result loop over a call that returned emits one
\* violation_data event when the envelope has a violation_check object whose
\* is_violation flag is true, with the flag and the object's segments (none
\* when it has no segments) as its content, and emits no violation_data
\* event for any other envelope.
C39_ViolationDataIffFlag ==
    [][ ( /\ pc = "observe"
          /\ idx <= Len(tool_call_meta)
          /\ tool_call_meta[idx].valid
          /\ results[result_iter + 1].kind = "ok" )
        => LET v == results[result_iter + 1].env.violation_check
               sent == SelectSeq(AddedEvents, LAMBDA e : e.type = "violation_data")
           IN  IF v # <<>> /\ v[1].is_violation = <<TRUE>>
               THEN sent = << [type |-> "violation_data",
                               content |-> <<"is_violation">>
                                   \o (IF v[1].segments = <<>> THEN <<>>
                                       ELSE v[1].segments[1])] >>
               ELSE sent = <<>> ]_vars

\* a step whose two calls returned a clean object and a violation with one
\* anchor has been observed: the log holds the one finding, with its anchor
C39_Witness ==
    /\ pc = "observe"
    /\ idx = 3
    /\ Len(results) = 2
    /\ results[1] = Returned(CleanEnvelope)
    /\ results[2] = Returned(ViolationEnvelope)
    /\ SelectSeq(events, LAMBDA e : e.type = "violation_data")
         = << Ev("violation_data", <<"is_violation", "0-5">>) >>

=============================================================================
